---------------------------- MODULE Spec2Model ----------------------------
(***************************************************************************)
(* Card-collector inventory pipeline: the hybrid merge                     *)
(* (scripts/merge_hybrid_inventory.js and its second copy, part_000) and   *)
(* the parallel-aware strict-duplicate dedupe (part_001).                  *)
(*                                                                         *)
(* A cell of a CSV file is a sequence of one-character strings, so that    *)
(* trim, norm, parseInt, String(n) ... are computed character by           *)
(* character as the scripts compute them.  A column name is a sequence of  *)
(* tokens: "norm_" + k is the token "norm_" put before k.  A row object    *)
(* is a function from column names to cells; JS objects live in `heap`     *)
(* and are referred to by their index, so that aliasing and mutation are   *)
(* visible.                                                                *)
(***************************************************************************)
EXTENDS Integers, Sequences, FiniteSets, TLC

\* ------------------------------------------------------------------
\* Text helpers (JS string primitives)
\* ------------------------------------------------------------------
Digits == <<"0", "1", "2", "3", "4", "5", "6", "7", "8", "9">>

DigitSet == {Digits[i] : i \in 1..Len(Digits)}

UpperSeq == <<"A", "B", "C", "D", "E", "F", "G", "H", "I", "J", "K", "L", "M",
              "N", "O", "P", "Q", "R", "S", "T", "U", "V", "W", "X", "Y", "Z">>

LowerSeq == <<"a", "b", "c", "d", "e", "f", "g", "h", "i", "j", "k", "l", "m",
              "n", "o", "p", "q", "r", "s", "t", "u", "v", "w", "x", "y", "z">>

UpperSet == {UpperSeq[i] : i \in 1..Len(UpperSeq)}

LowerSet == {LowerSeq[i] : i \in 1..Len(LowerSeq)}

\* \s of a JS regular expression and of String.prototype.trim
WhiteSet == {" ", "\t", "\n", "\r"}

\* \w of a JS regular expression
WordSet == UpperSet \cup LowerSet \cup DigitSet \cup {"_"}

\* the value of a decimal digit
DigitVal(c) == (CHOOSE i \in 1..Len(Digits) : Digits[i] = c) - 1

\* String.prototype.toLowerCase, one character
LowerChar(c) ==
    IF c \in UpperSet
      THEN LowerSeq[CHOOSE i \in 1..Len(UpperSeq) : UpperSeq[i] = c]
      ELSE IF c = "É" THEN "é"
      ELSE c

ToLowerCase(s) == [i \in 1..Len(s) |-> LowerChar(s[i])]

RECURSIVE TrimStart(_)
TrimStart(s) ==
    IF s # <<>> /\ Head(s) \in WhiteSet THEN TrimStart(Tail(s)) ELSE s

RECURSIVE TrimEnd(_)
TrimEnd(s) ==
    IF s # <<>> /\ s[Len(s)] \in WhiteSet
      THEN TrimEnd(SubSeq(s, 1, Len(s) - 1))
      ELSE s

\* String.prototype.trim
Trim(s) == TrimEnd(TrimStart(s))

\* truthiness of String(v ?? "").trim()
IsBlank(s) == Trim(s) = <<>>

\* String.prototype.includes
Includes(s, t) ==
    \E i \in 1..(Len(s) - Len(t) + 1) : SubSeq(s, i, i + Len(t) - 1) = t

\* Array.prototype.join of a list of strings
RECURSIVE Join(_, _)
Join(parts, sep) ==
    IF parts = <<>> THEN <<>>
    ELSE IF Len(parts) = 1 THEN parts[1]
    ELSE CHOOSE joined \in
           {Join(a, sep) \o sep \o Join(b, sep) :
               a \in {SubSeq(parts, 1, Len(parts) \div 2)},
               b \in {SubSeq(parts, Len(parts) \div 2 + 1, Len(parts))}} : TRUE

\* ------------------------------------------------------------------
\* Normalization helpers of the hybrid merge (identical in both copies)
\* ------------------------------------------------------------------
\* the precomposed letters of the model's alphabet and their base letters
AccentSeq == <<"é", "í", "ñ", "É">>

AccentBase == <<"e", "i", "n", "E">>

\* deburr: NFKD decomposition, then the combining marks are removed
deburr(s) ==
    [i \in 1..Len(s) |->
        IF \E j \in 1..Len(AccentSeq) : AccentSeq[j] = s[i]
          THEN AccentBase[CHOOSE j \in 1..Len(AccentSeq) : AccentSeq[j] = s[i]]
          ELSE s[i]]

\* .replace(/&/g, "and")
ReplaceAmp(s) ==
    Join([j \in 1..Len(s) |-> IF s[j] = "&" THEN <<"a", "n", "d">> ELSE <<s[j]>>],
         <<>>)

\* .replace(/[^a-z0-9]+/g, " ")
\* (each run of other characters leaves one space, written at its last character)
CollapseNonAlnum(s) ==
    Join([j \in 1..Len(s) |->
             IF s[j] \in LowerSet \cup DigitSet THEN <<s[j]>>
             ELSE IF j < Len(s) /\ s[j + 1] \notin LowerSet \cup DigitSet THEN <<>>
             ELSE <<" ">>],
         <<>>)

norm(s) == Trim(CollapseNonAlnum(ReplaceAmp(ToLowerCase(deburr(s)))))

\* s[i..i+3] is a year (19|20)\d{2}
IsYearAt(s, i) ==
    /\ i >= 1
    /\ i + 3 <= Len(s)
    /\ SubSeq(s, i, i + 1) \in {<<"1", "9">>, <<"2", "0">>}
    /\ s[i + 2] \in DigitSet
    /\ s[i + 3] \in DigitSet

\* \b between s[i-1] and s[i]
WordBoundary(s, i) ==
    LET before == i - 1 >= 1 /\ i - 1 <= Len(s) /\ s[i - 1] \in WordSet
        after  == i >= 1 /\ i <= Len(s) /\ s[i] \in WordSet
    IN  before # after

\* the least element of a non-empty set of positions: the leftmost match
MinOf(S) == CHOOSE x \in S : \A y \in S : x <= y

\* s.match(/(19|20)\d{2}/) on the trimmed string
pickYear(v) ==
    LET s == Trim(v)
        P == {i \in 1..Len(s) : IsYearAt(s, i)}
    IN  IF P = {} THEN <<>> ELSE SubSeq(s, MinOf(P), MinOf(P) + 3)

\* t.match(/\b(19|20)\d{2}\b/)
extract4DigitYear(t) ==
    LET P == {i \in 1..Len(t) :
                IsYearAt(t, i) /\ WordBoundary(t, i) /\ WordBoundary(t, i + 4)}
    IN  IF P = {} THEN <<>> ELSE SubSeq(t, MinOf(P), MinOf(P) + 3)

\* the position after the run of white space that starts at i
RECURSIVE SkipWhite(_, _)
SkipWhite(s, i) ==
    IF i <= Len(s) /\ s[i] \in WhiteSet THEN SkipWhite(s, i + 1) ELSE i

\* t.match(/\b((19|20)\d{2})\s*[-\/]\s*\d{2}\b/): group 1
SeasonAt(t, i) ==
    /\ IsYearAt(t, i)
    /\ WordBoundary(t, i)
    /\ LET j == SkipWhite(t, i + 4)
       IN  /\ j <= Len(t)
           /\ t[j] \in {"-", "/"}
           /\ LET k == SkipWhite(t, j + 1)
              IN  /\ k + 1 <= Len(t)
                  /\ t[k] \in DigitSet
                  /\ t[k + 1] \in DigitSet
                  /\ WordBoundary(t, k + 2)

extractSeasonStartYear(t) ==
    LET P == {i \in 1..Len(t) : SeasonAt(t, i)}
    IN  IF P = {} THEN <<>> ELSE SubSeq(t, MinOf(P), MinOf(P) + 3)

\* the end of the run of [A-Z0-9] (case-insensitive) that starts at i
RECURSIVE AlnumRunEnd(_, _)
AlnumRunEnd(s, i) ==
    IF i <= Len(s) /\ s[i] \in UpperSet \cup LowerSet \cup DigitSet
      THEN AlnumRunEnd(s, i + 1)
      ELSE i

\* ([A-Z0-9]{1,6})\b at position i: the captured text, or <<>> when none.
\* The quantifier is greedy and backs off one character at a time until \b holds.
CaptureCardNo(s, i) ==
    LET e == AlnumRunEnd(s, i)
        n == IF e - i > 6 THEN 6 ELSE e - i
        L == {m \in 1..n : WordBoundary(s, i + m)}
    IN  IF L = {} THEN <<>>
        ELSE SubSeq(s, i, i + (CHOOSE m \in L : \A m2 \in L : m2 <= m) - 1)

LeagueWords == {<<"f", "i", "f", "a">>, <<"u", "e", "f", "a">>, <<"m", "l", "s">>,
                <<"n", "b", "a">>, <<"n", "f", "l">>, <<"m", "l", "b">>,
                <<"n", "h", "l">>}

\* \b(?:FIFA|UEFA|MLS|NBA|NFL|MLB|NHL)\s*#?\s*([A-Z0-9]{1,6})\b at position i, /i
LeagueCardAt(t, i) ==
    IF ~WordBoundary(t, i) THEN <<>>
    ELSE LET W == {w \in LeagueWords :
                     /\ i + Len(w) - 1 <= Len(t)
                     /\ ToLowerCase(SubSeq(t, i, i + Len(w) - 1)) = w}
         IN  IF W = {} THEN <<>>
             ELSE LET w  == CHOOSE x \in W : TRUE
                      j  == SkipWhite(t, i + Len(w))
                      j2 == IF j <= Len(t) /\ t[j] = "#" THEN SkipWhite(t, j + 1) ELSE j
                      c2 == CaptureCardNo(t, j2)
                  IN  IF c2 # <<>> THEN c2
                      \* backtracking: # absent and \s* giving characters back
                      \* changes nothing, white space and # are not [A-Z0-9]
                      ELSE <<>>

\* \b#\s*([A-Z0-9]{1,6})\b at position i, /i
HashCardAt(t, i) ==
    IF i <= Len(t) /\ t[i] = "#" /\ WordBoundary(t, i)
      THEN CaptureCardNo(t, SkipWhite(t, i + 1))
      ELSE <<>>

extractCardNoFromTitle(title) ==
    LET P1 == {i \in 1..Len(title) : LeagueCardAt(title, i) # <<>>}
        P2 == {i \in 1..Len(title) : HashCardAt(title, i) # <<>>}
    IN  IF P1 # {} THEN LeagueCardAt(title, MinOf(P1))
        ELSE IF P2 # {} THEN HashCardAt(title, MinOf(P2))
        ELSE <<>>

\* t.replace(/^\s*\b(19|20)\d{2}(?:\s*[-\/]\s*\d{2})?\s*/i, "").trim()
guessSetFromTitle(title) ==
    LET t == Trim(title)
        \* after trim, ^\s* matches the empty string
        y == IsYearAt(t, 1) /\ WordBoundary(t, 1)
        j == SkipWhite(t, 5)
        k == IF j <= Len(t) /\ t[j] \in {"-", "/"} THEN SkipWhite(t, j + 1) ELSE 0
        season == k > 0 /\ k + 1 <= Len(t) /\ t[k] \in DigitSet /\ t[k + 1] \in DigitSet
        rest == IF season THEN SkipWhite(t, k + 2) ELSE j
    IN  IF y THEN Trim(SubSeq(t, rest, Len(t))) ELSE t

\* firstNonEmpty(...vals): the first value whose trim is non-empty, trimmed
RECURSIVE firstNonEmpty(_)
firstNonEmpty(vals) ==
    IF vals = <<>> THEN <<>>
    ELSE IF ~IsBlank(Head(vals)) THEN Trim(Head(vals))
    ELSE firstNonEmpty(Tail(vals))

\* ------------------------------------------------------------------
\* JS objects: a row object is the list of its <<column, cell>> pairs in
\* insertion order (the order of Object.entries and Object.keys)
\* ------------------------------------------------------------------
\* k in obj
Has(obj, k) == \E j \in 1..Len(obj) : obj[j][1] = k

\* String(obj[k] ?? ""): the cell, "" when the column is absent
Get(obj, k) ==
    IF Has(obj, k) THEN obj[CHOOSE j \in 1..Len(obj) : obj[j][1] = k][2] ELSE <<>>

\* obj[k] = v: an existing column keeps its place, a new one is added last
Put(obj, k, v) ==
    IF Has(obj, k)
      THEN [j \in 1..Len(obj) |-> IF obj[j][1] = k THEN <<k, v>> ELSE obj[j]]
      ELSE Append(obj, <<k, v>>)

\* Object.keys(obj)
Keys(obj) == [j \in 1..Len(obj) |-> obj[j][1]]

\* a variant that names the shadow column like the column itself
PlainName(k) == k

\* `norm_${k}`
NormPrefix(k) == <<"norm_">> \o k

\* a Map in insertion order: the list of its <<key, value>> pairs
MapHas(m, k) == \E j \in 1..Len(m) : m[j][1] = k

MapGet(m, k) == m[CHOOSE j \in 1..Len(m) : m[j][1] = k][2]

MapSet(m, k, v) ==
    IF MapHas(m, k)
      THEN [j \in 1..Len(m) |-> IF m[j][1] = k THEN <<k, v>> ELSE m[j]]
      ELSE Append(m, <<k, v>>)

\* ------------------------------------------------------------------
\* Field mapping, keying and scoring: scripts/merge_hybrid_inventory.js
\* ------------------------------------------------------------------
OLD_FIELD_GUESSES ==
    [title       |-> << <<"Title">>, <<"title">> >>,
     player      |-> << <<"Player">>, <<"player">> >>,
     set         |-> << <<"Set">>, <<"set">> >>,
     card_number |-> << <<"Card Number">>, <<"CardNumber">>, <<"card_number">>,
                        <<"Card #">>, <<"Card No">> >>,
     year        |-> << <<"Season">>, <<"Year">>, <<"year">> >>,
     team        |-> << <<"Team">>, <<"team">> >>,
     league      |-> << <<"League">>, <<"league">> >>,
     images      |-> << <<"Images">>, <<"Image">>, <<"image">>, <<"image_url">> >>]

\* getField(row, guesses): the cell of the first guessed column the row has
RECURSIVE getField(_, _)
getField(row, guesses) ==
    IF guesses = <<>> THEN <<>>
    ELSE IF Has(row, Head(guesses)) THEN Get(row, Head(guesses))
    ELSE getField(row, Tail(guesses))

Bar == <<"|">>

keyFromOld(row) ==
    LET title   == getField(row, OLD_FIELD_GUESSES.title)
        player  == norm(getField(row, OLD_FIELD_GUESSES.player))
        setRaw  == firstNonEmpty(<<getField(row, OLD_FIELD_GUESSES.set),
                                   guessSetFromTitle(title)>>)
        cardRaw == firstNonEmpty(<<getField(row, OLD_FIELD_GUESSES.card_number),
                                   extractCardNoFromTitle(title)>>)
        yearRaw == firstNonEmpty(<<getField(row, OLD_FIELD_GUESSES.year),
                                   extract4DigitYear(setRaw),
                                   extract4DigitYear(title),
                                   extractSeasonStartYear(
                                       getField(row, OLD_FIELD_GUESSES.year))>>)
    IN  player \o Bar \o norm(setRaw) \o Bar \o norm(cardRaw) \o Bar \o pickYear(yearRaw)

keyFromNew(row) ==
    norm(Get(row, <<"player">>)) \o Bar \o norm(Get(row, <<"set">>)) \o Bar
        \o norm(Get(row, <<"card_number">>)) \o Bar \o pickYear(Get(row, <<"year">>))

\* a && b && a === b
SameNonEmpty(a, b) == a # <<>> /\ b # <<>> /\ a = b

\* a && b && (a.includes(b) || b.includes(a))
PartialNonEmpty(a, b) == a # <<>> /\ b # <<>> /\ (Includes(a, b) \/ Includes(b, a))

\* scoreMatch counts in half points, so that the 0.5 of the partial team match
\* is an integer: the value is twice the score of the script
scoreMatch2(oldRow, newRow) ==
    LET oldPlayer == norm(getField(oldRow, OLD_FIELD_GUESSES.player))
        oldSet    == norm(getField(oldRow, OLD_FIELD_GUESSES.set))
        oldCard   == norm(getField(oldRow, OLD_FIELD_GUESSES.card_number))
        oldYear   == pickYear(getField(oldRow, OLD_FIELD_GUESSES.year))
        oldTeam   == norm(getField(oldRow, OLD_FIELD_GUESSES.team))
        oldLeague == norm(getField(oldRow, OLD_FIELD_GUESSES.league))
        newPlayer == norm(Get(newRow, <<"player">>))
        newSet    == norm(Get(newRow, <<"set">>))
        newCard   == norm(Get(newRow, <<"card_number">>))
        newYear   == pickYear(Get(newRow, <<"year">>))
        newTeam   == norm(Get(newRow, <<"team">>))
        newLeague == norm(Get(newRow, <<"league">>))
    IN    (IF SameNonEmpty(oldPlayer, newPlayer) THEN 2 * 5 ELSE 0)
        + (IF SameNonEmpty(oldSet, newSet) THEN 2 * 4 ELSE 0)
        + (IF SameNonEmpty(oldCard, newCard) THEN 2 * 3 ELSE 0)
        + (IF SameNonEmpty(oldYear, newYear) THEN 2 * 2 ELSE 0)
        + (IF SameNonEmpty(oldTeam, newTeam) THEN 2 * 1 ELSE 0)
        + (IF SameNonEmpty(oldLeague, newLeague) THEN 2 * 1 ELSE 0)
        + (IF PartialNonEmpty(oldSet, newSet) THEN 2 * 1 ELSE 0)
        + (IF PartialNonEmpty(oldTeam, newTeam) THEN 1 ELSE 0)

\* ------------------------------------------------------------------
\* Merge strategy: scripts/merge_hybrid_inventory.js
\* ------------------------------------------------------------------
\* one turn of the loop over Object.entries(newRow)
mergeEntry(out, k, v, fillBlanks) ==
    IF Has(out, k)
      THEN LET nk == NormPrefix(k)
           IN  IF fillBlanks
                 THEN IF IsBlank(Get(out, nk)) /\ ~IsBlank(v) THEN Put(out, nk, v) ELSE out
                 ELSE IF ~Has(out, nk) THEN Put(out, nk, v) ELSE out
      ELSE IF fillBlanks
             THEN IF IsBlank(Get(out, k)) /\ ~IsBlank(v) THEN Put(out, k, v)
                  ELSE IF ~Has(out, k) THEN Put(out, k, v)
                  ELSE out
             ELSE Put(out, k, v)

RECURSIVE mergeEntries(_, _, _)
mergeEntries(out, entries, fillBlanks) ==
    IF entries = <<>> THEN out
    ELSE mergeEntries(mergeEntry(out, Head(entries)[1], Head(entries)[2], fillBlanks),
                      Tail(entries), fillBlanks)

\* a variant that writes into the old row instead of a copy of it
mergeInPlace(h, oldRow, newRow, fillBlanks) ==
    [heap |-> [h EXCEPT ![oldRow] = mergeEntries(h[oldRow], h[newRow], fillBlanks)],
     ref  |-> oldRow]

\* mergeRows(oldRow, newRow, fillBlanks) on the heap h, oldRow and newRow being
\* references: `out` is a new object, the copy { ...oldRow }; the result is the
\* heap after the call and the reference returned
mergeRows(h, oldRow, newRow, fillBlanks) ==
    [heap |-> Append(h, mergeEntries(h[oldRow], h[newRow], fillBlanks)),
     ref  |-> Len(h) + 1]

\* ------------------------------------------------------------------
\* The second copy of the hybrid merge (part_000): keying, scoring, merge
\* ------------------------------------------------------------------
keyFromOld_p0(row) ==
    Trim(norm(getField(row, OLD_FIELD_GUESSES.player)) \o Bar
         \o norm(getField(row, OLD_FIELD_GUESSES.set)) \o Bar
         \o norm(getField(row, OLD_FIELD_GUESSES.card_number)) \o Bar
         \o pickYear(getField(row, OLD_FIELD_GUESSES.year)))

keyFromNew_p0(row) == Trim(keyFromNew(row))

scoreMatch_p0(oldRow, newRow) ==
    LET op    == norm(getField(oldRow, OLD_FIELD_GUESSES.player))
        np    == norm(Get(newRow, <<"player">>))
        os    == norm(getField(oldRow, OLD_FIELD_GUESSES.set))
        ns    == norm(Get(newRow, <<"set">>))
        oc    == norm(getField(oldRow, OLD_FIELD_GUESSES.card_number))
        nc    == norm(Get(newRow, <<"card_number">>))
        oy    == pickYear(getField(oldRow, OLD_FIELD_GUESSES.year))
        ny    == pickYear(Get(newRow, <<"year">>))
        ot    == norm(getField(oldRow, OLD_FIELD_GUESSES.team))
        nt    == norm(Get(newRow, <<"team">>))
        ol    == norm(getField(oldRow, OLD_FIELD_GUESSES.league))
        nl    == norm(Get(newRow, <<"league">>))
        title == norm(getField(oldRow, OLD_FIELD_GUESSES.title))
    IN    (IF SameNonEmpty(op, np) THEN 5 ELSE 0)
        + (IF SameNonEmpty(os, ns) THEN 3 ELSE 0)
        + (IF SameNonEmpty(oc, nc) THEN 4 ELSE 0)
        + (IF SameNonEmpty(oy, ny) THEN 2 ELSE 0)
        + (IF SameNonEmpty(ot, nt) THEN 1 ELSE 0)
        + (IF SameNonEmpty(ol, nl) THEN 1 ELSE 0)
        + (IF title # <<>> /\ np # <<>> /\ Includes(title, np) THEN 1 ELSE 0)

\* a variant that fills whether or not the old value is blank
shouldFillAny(fill, oldVal, newVal) == fill /\ ~IsBlank(newVal)

shouldFillBlank(fill, oldVal, newVal) == fill /\ IsBlank(oldVal) /\ ~IsBlank(newVal)

FILL_PREFERRED ==
    {<<"player">>, <<"set">>, <<"card_number">>, <<"year">>, <<"team">>,
     <<"league">>, <<"image">>, <<"image_back">>}

\* one turn of the loop of fillOrKeep over Object.entries(newRow)
fillOrKeepEntry(outRow, k, v, fill) ==
    IF Has(outRow, k)
      THEN LET withPref == Put(outRow, NormPrefix(k), v)
           IN  IF k \in FILL_PREFERRED /\ shouldFillBlank(fill, Get(withPref, k), v)
                 THEN Put(withPref, k, v)
                 ELSE withPref
      ELSE Put(outRow, k, v)

RECURSIVE fillOrKeepEntries(_, _, _)
fillOrKeepEntries(outRow, entries, fill) ==
    IF entries = <<>> THEN outRow
    ELSE fillOrKeepEntries(
             fillOrKeepEntry(outRow, Head(entries)[1], Head(entries)[2], fill),
             Tail(entries), fill)

\* fillOrKeep(outRow, oldHeaders, newRow) writes into the object outRow refers to
fillOrKeep(h, outRow, newRow, fill) ==
    [h EXCEPT ![outRow] = fillOrKeepEntries(h[outRow], h[newRow], fill)]

\* mergeHeaders(oldHeaders, newHeaders)
RECURSIVE mergeHeaders(_, _, _)
mergeHeaders(out, oldHeaders, newHeaders) ==
    IF newHeaders = <<>> THEN out
    ELSE LET hd     == Head(newHeaders)
             oldSet == {oldHeaders[j] : j \in 1..Len(oldHeaders)}
             next   == IF hd \notin oldSet THEN Append(out, hd)
                       ELSE IF NormPrefix(hd) \notin oldSet
                         THEN Append(out, NormPrefix(hd))
                       ELSE out
         IN  mergeHeaders(next, oldHeaders, Tail(newHeaders))

\* candidates.map(...).sort((a, b) => b.s - a.s): a stable sort, best score first.
\* Each element is <<candidate, score>>.
RECURSIVE InsertByScore(_, _)
InsertByScore(sorted, x) ==
    IF sorted = <<>> THEN <<x>>
    ELSE IF Head(sorted)[2] >= x[2] THEN <<Head(sorted)>> \o InsertByScore(Tail(sorted), x)
    ELSE <<x>> \o sorted

RECURSIVE SortByScore(_)
SortByScore(xs) ==
    IF xs = <<>> THEN <<>>
    ELSE InsertByScore(SortByScore(SubSeq(xs, 1, Len(xs) - 1)), xs[Len(xs)])

\* ------------------------------------------------------------------
\* Parallel-aware dedupe (part_001): helpers
\* ------------------------------------------------------------------
\* .replace(/\s+/g, " ")
\* (each run of white space leaves one space, written at its last character)
CollapseWhite(s) ==
    Join([j \in 1..Len(s) |->
             IF s[j] \notin WhiteSet THEN <<s[j]>>
             ELSE IF j < Len(s) /\ s[j + 1] \in WhiteSet THEN <<>>
             ELSE <<" ">>],
         <<>>)

\* norm of the dedupe script: trim, then runs of white space become one space
norm_d(s) == CollapseWhite(Trim(s))

normKey(s) == ToLowerCase(norm_d(s))

\* the end of the run of decimal digits that starts at i
RECURSIVE DigitRunEnd(_, _)
DigitRunEnd(s, i) ==
    IF i <= Len(s) /\ s[i] \in DigitSet THEN DigitRunEnd(s, i + 1) ELSE i

\* the number a string of decimal digits denotes
RECURSIVE DigitsValue(_)
DigitsValue(ds) ==
    IF ds = <<>> THEN 0
    ELSE 10 * DigitsValue(SubSeq(ds, 1, Len(ds) - 1)) + DigitVal(ds[Len(ds)])

\* String(n) of an integer n >= 0
RECURSIVE NatToString(_)
NatToString(n) ==
    IF n < 10 THEN <<Digits[n + 1]>>
    ELSE NatToString(n \div 10) \o <<Digits[(n % 10) + 1]>>

\* String(n) of an integer
IntToString(n) == IF n < 0 THEN <<"-">> \o NatToString(0 - n) ELSE NatToString(n)

\* toInt(x, fallback): parseInt(String(x ?? "").trim(), 10), the fallback when
\* the result is NaN: an optional sign, then the leading decimal digits
toInt(x, fallback) ==
    LET s     == Trim(x)
        neg   == s # <<>> /\ s[1] = "-"
        first == IF s # <<>> /\ s[1] \in {"-", "+"} THEN 2 ELSE 1
        e     == DigitRunEnd(s, first)
        n     == DigitsValue(SubSeq(s, first, e - 1))
    IN  IF e = first THEN fallback
        ELSE IF neg THEN 0 - n ELSE n

\* Math.max(0, q)
Max0(q) == IF q > 0 THEN q ELSE 0

\* Numbers of the money fields are counted in hundredths.  NoNumber is the
\* null of toFloat.
NoNumber == [ok |-> FALSE, v |-> 0]

\* .replace(/[^0-9.\-]/g, "")
KeepNumeric(s) == SelectSeq(s, LAMBDA c : c \in DigitSet \cup {".", "-"})

\* Number(t) of a string of digits, "." and "-": "" is 0, a decimal literal
\* with an optional leading "-" is its value, anything else is NaN (NoNumber).
\* The model's literals have at most two decimals.
NumberOf(t) ==
    LET neg   == t # <<>> /\ t[1] = "-"
        first == IF neg THEN 2 ELSE 1
        e1    == DigitRunEnd(t, first)
        dot   == e1 <= Len(t) /\ t[e1] = "."
        e2    == IF dot THEN DigitRunEnd(t, e1 + 1) ELSE e1
        ipart == SubSeq(t, first, e1 - 1)
        fpart == IF dot THEN SubSeq(t, e1 + 1, e2 - 1) ELSE <<>>
        f2    == SubSeq(fpart \o <<"0", "0">>, 1, 2)
        mag   == 100 * DigitsValue(ipart) + DigitsValue(f2)
    IN  IF t = <<>> THEN [ok |-> TRUE, v |-> 0]
        ELSE IF e2 # Len(t) + 1 \/ (ipart = <<>> /\ fpart = <<>>) THEN NoNumber
        ELSE [ok |-> TRUE, v |-> IF neg THEN 0 - mag ELSE mag]

toFloat(x) ==
    LET s == Trim(x)
    IN  IF s = <<>> THEN NoNumber ELSE NumberOf(KeepNumeric(s))

\* String(x) of a number given in hundredths
NumToString(v) ==
    LET mag  == IF v < 0 THEN 0 - v ELSE v
        ip   == NatToString(mag \div 100)
        f    == mag % 100
        frac == IF f = 0 THEN <<>>
                ELSE IF f % 10 = 0 THEN <<".", Digits[(f \div 10) + 1]>>
                ELSE <<".", Digits[(f \div 10) + 1], Digits[(f % 10) + 1]>>
    IN  (IF v < 0 THEN <<"-">> ELSE <<>>) \o ip \o frac

\* Date.parse(ts || "") || 0.  The model's timestamps are the ISO year form
\* "YYYY" (midnight UTC of 1 January) or no date at all (NaN, hence 0); the
\* value is counted in years since 1970, which keeps the order and the zero
\* of the milliseconds.
DateParse(ts) ==
    IF Len(ts) = 4 /\ \A j \in 1..4 : ts[j] \in DigitSet
      THEN DigitsValue(ts) - 1970
      ELSE 0

\* newestByTimestamp(a, b): "b" or "a"
newestByTimestamp(a, b) ==
    IF DateParse(Get(b, <<"timestamp">>)) >= DateParse(Get(a, <<"timestamp">>))
      THEN b ELSE a

\* sha1(s): the first ten hex digits of the digest, kept symbolic
sha1(s) == <<"sha1(">> \o s \o <<")">>

KeyFields ==
    << <<"sport">>, <<"year">>, <<"set">>, <<"subset">>, <<"card_number">>,
       <<"player">>, <<"team">>, <<"league">>, <<"parallel">>, <<"insert">>,
       <<"rookie">>, <<"autograph">>, <<"serial_number">>, <<"grade">>,
       <<"condition">> >>

buildDedupeKey(o) ==
    Join([j \in 1..Len(KeyFields) |-> normKey(Get(o, KeyFields[j]))], Bar)

\* ------------------------------------------------------------------
\* Parallel-aware dedupe (part_001): mergeRows
\* ------------------------------------------------------------------
InHeaders(headers, hname) == \E j \in 1..Len(headers) : headers[j] = hname

\* the loop of `if (FILL_BLANKS)` over the headers that are no column of
\* merged: the column is added when the new row has a value for it
RECURSIVE fillAbsent(_, _, _)
fillAbsent(merged, newRow, hs) ==
    IF hs = <<>> THEN merged
    ELSE fillAbsent(IF IsBlank(Get(merged, Head(hs))) /\ ~IsBlank(Get(newRow, Head(hs)))
                      THEN Put(merged, Head(hs), Get(newRow, Head(hs)))
                      ELSE merged,
                    newRow, Tail(hs))

\* the loop of `if (FILL_BLANKS)` over the headers: a blank column of merged
\* takes the value of the new row when that is not blank
fillBlanks_d(merged, newRow, hs) ==
    fillAbsent([j \in 1..Len(merged) |->
                   IF /\ InHeaders(hs, merged[j][1])
                      /\ IsBlank(merged[j][2])
                      /\ ~IsBlank(Get(newRow, merged[j][1]))
                     THEN <<merged[j][1], Get(newRow, merged[j][1])>>
                     ELSE merged[j]],
               newRow, SelectSeq(hs, LAMBDA h : ~Has(merged, h)))

NumericFieldNames ==
    << <<"value">>, <<"purchase_price">>, <<"market_avg_ebay_90d_usd">>,
       <<"last_sold_raw_usd">> >>

\* a variant that takes the larger value under every strategy
mergeValueAsMax(merged, oldRow, newRow, f, mergeValues) ==
    LET a == toFloat(Get(oldRow, f))
        b == toFloat(Get(newRow, f))
    IN  IF ~a.ok /\ ~b.ok THEN merged
        ELSE Put(merged, f, NumToString(
                 IF ~a.ok THEN b.v ELSE IF ~b.ok THEN a.v
                 ELSE IF a.v >= b.v THEN a.v ELSE b.v))

\* the strategy names, as strings of characters
StrKeepOld == <<"k", "e", "e", "p", "_", "o", "l", "d">>

StrMax == <<"m", "a", "x">>

StrMin == <<"m", "i", "n">>

StrNewest == <<"n", "e", "w", "e", "s", "t">>

\* one numeric field under the strategy MERGE_VALUES
mergeValue(merged, oldRow, newRow, f, mergeValues) ==
    LET a == toFloat(Get(oldRow, f))
        b == toFloat(Get(newRow, f))
    IN  IF ~a.ok /\ ~b.ok THEN merged
        ELSE IF mergeValues = StrMax
          THEN Put(merged, f, NumToString(
                   IF ~a.ok THEN b.v ELSE IF ~b.ok THEN a.v
                   ELSE IF a.v >= b.v THEN a.v ELSE b.v))
        ELSE IF mergeValues = StrMin
          THEN Put(merged, f, NumToString(
                   IF ~a.ok THEN b.v ELSE IF ~b.ok THEN a.v
                   ELSE IF a.v <= b.v THEN a.v ELSE b.v))
        ELSE IF mergeValues = StrNewest
          THEN LET pv == toFloat(Get(newestByTimestamp(oldRow, newRow), f))
               IN  IF pv.ok THEN Put(merged, f, NumToString(pv.v)) ELSE merged
        ELSE merged

RECURSIVE mergeValues_d(_, _, _, _, _, _)
mergeValues_d(merged, oldRow, newRow, fs, headers, mergeValues) ==
    IF fs = <<>> THEN merged
    ELSE mergeValues_d(
             IF InHeaders(headers, Head(fs))
               THEN mergeValue(merged, oldRow, newRow, Head(fs), mergeValues)
               ELSE merged,
             oldRow, newRow, Tail(fs), headers, mergeValues)

\* a variant that overwrites the quantity with the one of the new row
keepNewQuantity(oldRow, newRow) ==
    IntToString(Max0(toInt(Get(newRow, <<"quantity">>), 1)))

\* merged.quantity = String(Math.max(0, qOld) + Math.max(0, qNew))
sumQuantity(oldRow, newRow) ==
    IntToString(Max0(toInt(Get(oldRow, <<"quantity">>), 1))
                + Max0(toInt(Get(newRow, <<"quantity">>), 1)))

\* merged.quantity = ...: the copy of oldRow with the summed quantity
withQuantity(oldRow, newRow) == Put(oldRow, <<"quantity">>, sumQuantity(oldRow, newRow))

\* if (FILL_BLANKS) ...
withFill(m, newRow, headers, fill) ==
    IF fill THEN fillBlanks_d(m, newRow, headers) ELSE m

\* if (MERGE_VALUES !== "keep_old") ...
withValues(m, oldRow, newRow, headers, mergeValues) ==
    IF mergeValues # StrKeepOld
      THEN mergeValues_d(m, oldRow, newRow, NumericFieldNames, headers, mergeValues)
      ELSE m

\* timestamp: keep newest.  ts is newestByTimestamp(oldRow, newRow).timestamp
withTimestamp(m, ts, headers) ==
    IF InHeaders(headers, <<"timestamp">>)
      THEN Put(m, <<"timestamp">>, IF ts # <<>> THEN ts ELSE Get(m, <<"timestamp">>))
      ELSE m

\* notes: append if different and both exist.  a, b are the normed notes
withNotes(m, a, b, headers) ==
    IF InHeaders(headers, <<"notes">>)
      THEN Put(m, <<"notes">>,
               IF a # <<>> /\ b # <<>> /\ a # b THEN a \o <<" ", "|", " ">> \o b
               ELSE IF a # <<>> THEN a ELSE b)
      ELSE m

\* id: keep old id (stable), unless missing
withNewId(m, oldRow, newRow, headers) ==
    IF InHeaders(headers, <<"id">>)
         /\ norm_d(Get(oldRow, <<"id">>)) = <<>>
         /\ norm_d(Get(newRow, <<"id">>)) # <<>>
      THEN Put(m, <<"id">>, Get(newRow, <<"id">>))
      ELSE m

withMadeId(m, headers) ==
    IF InHeaders(headers, <<"id">>) /\ norm_d(Get(m, <<"id">>)) = <<>>
      THEN Put(m, <<"id">>, <<"c", "_">> \o sha1(buildDedupeKey(m)))
      ELSE m

\* the object mergeRows builds from the objects oldRow and newRow: the
\* statements of the function in their order, each on the result of the
\* one before
mergedObject(oldRow, newRow, headers, fill, mergeValues) ==
    CHOOSE merged \in
        {withMadeId(m6, headers) :
         m6 \in {withNewId(m5, oldRow, newRow, headers) :
         m5 \in {withNotes(m4, norm_d(Get(oldRow, <<"notes">>)),
                          norm_d(Get(newRow, <<"notes">>)), headers) :
         m4 \in {withTimestamp(m3, Get(newestByTimestamp(oldRow, newRow), <<"timestamp">>),
                              headers) :
         m3 \in {withValues(m2, oldRow, newRow, headers, mergeValues) :
         m2 \in {withFill(m1, newRow, headers, fill) :
         m1 \in {withQuantity(oldRow, newRow)}}}}}}} : TRUE

\* mergeRows(oldRow, newRow, headers) on the heap h: `merged` is a new object,
\* the copy { ...oldRow }
mergeRows_d(h, oldRow, newRow, headers, fill, mergeValues) ==
    [heap |-> Append(h, mergedObject(h[oldRow], h[newRow], headers, fill, mergeValues)),
     ref  |-> Len(h) + 1]

\* ------------------------------------------------------------------
\* Inventory normalizer (part_003)
\* ------------------------------------------------------------------
\* the scan store's base URL, one symbol of the model's alphabet
IMAGE_BASE ==
    <<"https://sportscards.standard.us-east-1.oortstorages.com/new%20card%20scans%202/card%20matcher/">>

\* column names of the normalizer are strings of characters
CANONICAL_HEADERS ==
    << <<"i", "d">>, <<"s", "p", "o", "r", "t">>, <<"y", "e", "a", "r">>,
       <<"s", "e", "t">>, <<"s", "u", "b", "s", "e", "t">>,
       <<"c", "a", "r", "d", "_", "n", "u", "m", "b", "e", "r">>,
       <<"p", "l", "a", "y", "e", "r">>, <<"t", "e", "a", "m">>,
       <<"l", "e", "a", "g", "u", "e">>, <<"p", "a", "r", "a", "l", "l", "e", "l">>,
       <<"i", "n", "s", "e", "r", "t">>, <<"r", "o", "o", "k", "i", "e">>,
       <<"a", "u", "t", "o", "g", "r", "a", "p", "h">>,
       <<"s", "e", "r", "i", "a", "l", "_", "n", "u", "m", "b", "e", "r">>,
       <<"g", "r", "a", "d", "e">>, <<"c", "o", "n", "d", "i", "t", "i", "o", "n">>,
       <<"q", "u", "a", "n", "t", "i", "t", "y">>,
       <<"p", "u", "r", "c", "h", "a", "s", "e", "_", "p", "r", "i", "c", "e">>,
       <<"v", "a", "l", "u", "e">>, <<"c", "u", "r", "r", "e", "n", "c", "y">>,
       <<"n", "o", "t", "e", "s">>, <<"i", "m", "a", "g", "e">>,
       <<"i", "m", "a", "g", "e", "_", "b", "a", "c", "k">>,
       <<"s", "o", "u", "r", "c", "e">>,
       <<"t", "i", "m", "e", "s", "t", "a", "m", "p">> >>

HEADER_ALIASES ==
    << <<<<"c", "a", "r", "d", " ", "#">>, <<"c", "a", "r", "d", "_", "n", "u", "m", "b", "e", "r">>>>,
       <<<<"c", "a", "r", "d", "#">>, <<"c", "a", "r", "d", "_", "n", "u", "m", "b", "e", "r">>>>,
       <<<<"c", "a", "r", "d", " ", "n", "u", "m", "b", "e", "r">>, <<"c", "a", "r", "d", "_", "n", "u", "m", "b", "e", "r">>>>,
       <<<<"n", "u", "m", "b", "e", "r">>, <<"c", "a", "r", "d", "_", "n", "u", "m", "b", "e", "r">>>>,
       <<<<"n", "o", ".">>, <<"c", "a", "r", "d", "_", "n", "u", "m", "b", "e", "r">>>>,
       <<<<"n", "o">>, <<"c", "a", "r", "d", "_", "n", "u", "m", "b", "e", "r">>>>,
       <<<<"p", "l", "a", "y", "e", "r", " ", "n", "a", "m", "e">>, <<"p", "l", "a", "y", "e", "r">>>>,
       <<<<"n", "a", "m", "e">>, <<"p", "l", "a", "y", "e", "r">>>>,
       <<<<"s", "e", "t", " ", "n", "a", "m", "e">>, <<"s", "e", "t">>>>,
       <<<<"p", "r", "o", "d", "u", "c", "t">>, <<"s", "e", "t">>>>,
       <<<<"c", "o", "l", "l", "e", "c", "t", "i", "o", "n">>, <<"s", "e", "t">>>>,
       <<<<"s", "u", "b", "-", "s", "e", "t">>, <<"s", "u", "b", "s", "e", "t">>>>,
       <<<<"s", "u", "b", " ", "s", "e", "t">>, <<"s", "u", "b", "s", "e", "t">>>>,
       <<<<"q", "t", "y">>, <<"q", "u", "a", "n", "t", "i", "t", "y">>>>,
       <<<<"c", "o", "u", "n", "t">>, <<"q", "u", "a", "n", "t", "i", "t", "y">>>>,
       <<<<"e", "s", "t", " ", "v", "a", "l", "u", "e">>, <<"v", "a", "l", "u", "e">>>>,
       <<<<"e", "s", "t", "i", "m", "a", "t", "e", "d", " ", "v", "a", "l", "u", "e">>, <<"v", "a", "l", "u", "e">>>>,
       <<<<"p", "r", "i", "c", "e">>, <<"v", "a", "l", "u", "e">>>>,
       <<<<"c", "u", "r", "r", "e", "n", "t", " ", "v", "a", "l", "u", "e">>, <<"v", "a", "l", "u", "e">>>>,
       <<<<"b", "u", "y", " ", "p", "r", "i", "c", "e">>, <<"p", "u", "r", "c", "h", "a", "s", "e", "_", "p", "r", "i", "c", "e">>>>,
       <<<<"c", "o", "s", "t">>, <<"p", "u", "r", "c", "h", "a", "s", "e", "_", "p", "r", "i", "c", "e">>>>,
       <<<<"p", "u", "r", "c", "h", "a", "s", "e">>, <<"p", "u", "r", "c", "h", "a", "s", "e", "_", "p", "r", "i", "c", "e">>>>,
       <<<<"r", "c">>, <<"r", "o", "o", "k", "i", "e">>>>,
       <<<<"a", "u", "t", "o">>, <<"a", "u", "t", "o", "g", "r", "a", "p", "h">>>>,
       <<<<"s", "i", "g">>, <<"a", "u", "t", "o", "g", "r", "a", "p", "h">>>>,
       <<<<"s", "i", "g", "n", "e", "d">>, <<"a", "u", "t", "o", "g", "r", "a", "p", "h">>>>,
       <<<<"s", "n">>, <<"s", "e", "r", "i", "a", "l", "_", "n", "u", "m", "b", "e", "r">>>>,
       <<<<"s", "e", "r", "i", "a", "l">>, <<"s", "e", "r", "i", "a", "l", "_", "n", "u", "m", "b", "e", "r">>>>,
       <<<<"s", "e", "r", "i", "a", "l", "#">>, <<"s", "e", "r", "i", "a", "l", "_", "n", "u", "m", "b", "e", "r">>>>,
       <<<<"s", "e", "a", "s", "o", "n">>, <<"y", "e", "a", "r">>>>,
       <<<<"y", "e", "a", "r", "/", "s", "e", "a", "s", "o", "n">>, <<"y", "e", "a", "r">>>>,
       <<<<"s", "e", "t", " ", "y", "e", "a", "r">>, <<"y", "e", "a", "r">>>>,
       <<<<"r", "e", "l", "e", "a", "s", "e", " ", "y", "e", "a", "r">>, <<"y", "e", "a", "r">>>>,
       <<<<"y", "r">>, <<"y", "e", "a", "r">>>>,
       <<<<"i", "m", "g">>, <<"i", "m", "a", "g", "e">>>>,
       <<<<"i", "m", "a", "g", "e", "_", "u", "r", "l">>, <<"i", "m", "a", "g", "e">>>>,
       <<<<"i", "m", "a", "g", "e", " ", "u", "r", "l">>, <<"i", "m", "a", "g", "e">>>>,
       <<<<"f", "r", "o", "n", "t", "_", "i", "m", "a", "g", "e">>, <<"i", "m", "a", "g", "e">>>>,
       <<<<"f", "r", "o", "n", "t", " ", "i", "m", "a", "g", "e">>, <<"i", "m", "a", "g", "e">>>>,
       <<<<"f", "r", "o", "n", "t">>, <<"i", "m", "a", "g", "e">>>>,
       <<<<"i", "m", "a", "g", "e", "_", "f", "r", "o", "n", "t">>, <<"i", "m", "a", "g", "e">>>>,
       <<<<"i", "m", "a", "g", "e", " ", "f", "r", "o", "n", "t">>, <<"i", "m", "a", "g", "e">>>>,
       <<<<"p", "h", "o", "t", "o">>, <<"i", "m", "a", "g", "e">>>>,
       <<<<"p", "h", "o", "t", "o", "_", "u", "r", "l">>, <<"i", "m", "a", "g", "e">>>>,
       <<<<"f", "r", "o", "n", "t", "_", "u", "r", "l">>, <<"i", "m", "a", "g", "e">>>>,
       <<<<"f", "r", "o", "n", "t", " ", "u", "r", "l">>, <<"i", "m", "a", "g", "e">>>>,
       <<<<"f", "i", "l", "e", "n", "a", "m", "e">>, <<"i", "m", "a", "g", "e">>>>,
       <<<<"f", "i", "l", "e">>, <<"i", "m", "a", "g", "e">>>>,
       <<<<"i", "m", "a", "g", "e", "s">>, <<"i", "m", "a", "g", "e", "s">>>>,
       <<<<"b", "a", "c", "k", "_", "i", "m", "a", "g", "e">>, <<"i", "m", "a", "g", "e", "_", "b", "a", "c", "k">>>>,
       <<<<"b", "a", "c", "k", " ", "i", "m", "a", "g", "e">>, <<"i", "m", "a", "g", "e", "_", "b", "a", "c", "k">>>>,
       <<<<"b", "a", "c", "k">>, <<"i", "m", "a", "g", "e", "_", "b", "a", "c", "k">>>>,
       <<<<"b", "a", "c", "k", "_", "u", "r", "l">>, <<"i", "m", "a", "g", "e", "_", "b", "a", "c", "k">>>>,
       <<<<"b", "a", "c", "k", " ", "u", "r", "l">>, <<"i", "m", "a", "g", "e", "_", "b", "a", "c", "k">>>> >>

Col_images == <<"i", "m", "a", "g", "e", "s">>

\* .replace(/[^\w]+/g, "_")
\* (each run of other characters leaves one "_", written at its last character)
CollapseNonWord(s) ==
    Join([j \in 1..Len(s) |->
             IF s[j] \in WordSet THEN <<s[j]>>
             ELSE IF j < Len(s) /\ s[j + 1] \notin WordSet THEN <<>>
             ELSE <<"_">>],
         <<>>)

\* .replace(/^_+|_+$/g, "")
StripUnderscores(s) ==
    LET P == {j \in 1..Len(s) : s[j] # "_"}
    IN  IF P = {} THEN <<>>
        ELSE SubSeq(s, CHOOSE a \in P : \A b \in P : a <= b,
                       CHOOSE a \in P : \A b \in P : a >= b)

normalizeHeader(h) == ToLowerCase(CollapseWhite(Trim(h)))

canonicalHeaderOf(nh, underscored) ==
    IF MapHas(HEADER_ALIASES, nh) THEN MapGet(HEADER_ALIASES, nh)
    ELSE IF InHeaders(CANONICAL_HEADERS, nh) THEN nh
    ELSE IF MapHas(HEADER_ALIASES, underscored) THEN MapGet(HEADER_ALIASES, underscored)
    ELSE IF InHeaders(CANONICAL_HEADERS, underscored) THEN underscored
    ELSE IF underscored # <<>> THEN underscored
    ELSE <<"c", "o", "l">>

canonicalizeHeader(h) ==
    canonicalHeaderOf(normalizeHeader(h),
                      StripUnderscores(CollapseNonWord(normalizeHeader(h))))

\* (s.match(/c/g) || []).length
CountOf(s, c) == Cardinality({j \in 1..Len(s) : s[j] = c})

detectDelimiter_n(sampleLine) ==
    LET t == CountOf(sampleLine, "\t")
        c == CountOf(sampleLine, ",")
        p == CountOf(sampleLine, "|")
    IN  IF t >= c /\ t >= p /\ t > 0 THEN "\t"
        ELSE IF c >= t /\ c >= p /\ c > 0 THEN ","
        ELSE IF p > 0 THEN "|"
        ELSE ","

Quote == "\""

\* the sequence f as a tuple of its elements (Array.from)
ArrayFrom(f) == f \o <<>>

\* the k-th element of a set of positions
NthOf(D, k) == CHOOSE p \in D : Cardinality({q \in D : q < p}) = k - 1

\* the strings between the positions D of the sequence of pieces `outs`
piecesBetween(outs, D) ==
    ArrayFrom([k \in 1..(Cardinality(D) + 1) |->
        Join(SubSeq(outs,
                    IF k = 1 THEN 1 ELSE NthOf(D, k - 1) + 1,
                    IF k = Cardinality(D) + 1 THEN Len(outs) ELSE NthOf(D, k) - 1),
             <<>>)])

\* String.prototype.split at the characters of seps
SplitOn(s, seps) ==
    piecesBetween(ArrayFrom([j \in 1..Len(s) |-> <<s[j]>>]),
                  {j \in 1..Len(s) : s[j] \in seps})

\* inQuotes when the loop of splitLine comes to the character j that is no
\* quote, or to the first quote of a run of quotes: every run of quotes
\* toggles it as often as it has characters, a pair "" inside quotes being
\* two characters that leave it as it was
inQuotesAt(line, j) == Cardinality({k \in 1..(j - 1) : line[k] = Quote}) % 2 = 1

\* the first quote of the run of quotes that the quote at j belongs to
runStart(line, j) ==
    CHOOSE k \in 1..j :
        /\ \A m \in k..j : line[m] = Quote
        /\ k = 1 \/ line[k - 1] # Quote

\* the quotes splitLine adds to the cell, one for each pair "" that it meets
\* inside quotes: the even quotes of a run that starts inside quotes, and of
\* a run that starts outside them the third, the fifth, ... (the first
\* opens the quotes, the pairs follow it)
emitsQuote(line, j, k) ==
    IF inQuotesAt(line, k) THEN (j - k + 1) % 2 = 0
    ELSE (j - k + 1) % 2 = 1 /\ j - k + 1 >= 3

splitPieces(line) ==
    ArrayFrom([j \in 1..Len(line) |->
        IF line[j] = Quote
          THEN IF emitsQuote(line, j, runStart(line, j)) THEN <<Quote>> ELSE <<>>
        ELSE <<line[j]>>])

splitLine(line, delim) ==
    IF \A j \in 1..Len(line) : line[j] # Quote
      THEN SplitOn(line, {delim})
      ELSE piecesBetween(splitPieces(line),
                         {j \in 1..Len(line) : line[j] = delim /\ ~inQuotesAt(line, j)})

\* String(v ?? "").replace(/\r/g, "").trim()
normalizeText(v) == Trim(SelectSeq(v, LAMBDA c : c # "\r"))

toBool(v) ==
    LET s == ToLowerCase(Trim(v))
    IN  IF s = <<>> THEN <<>>
        ELSE IF s \in {<<"1">>, <<"t", "r", "u", "e">>, <<"y", "e", "s">>, <<"y">>, <<"t">>} THEN <<"t", "r", "u", "e">>
        ELSE IF s \in {<<"0">>, <<"f", "a", "l", "s", "e">>, <<"n", "o">>, <<"n">>, <<"f">>} THEN <<"f", "a", "l", "s", "e">>
        ELSE s

\* the end of the run of decimal digits that starts at i
DigitsEnd(s, i) ==
    IF \E j \in i..Len(s) : s[j] \notin DigitSet
      THEN CHOOSE j \in i..Len(s) :
               s[j] \notin DigitSet /\ \A k \in i..(j - 1) : s[k] \in DigitSet
      ELSE Len(s) + 1

\* the digits of a natural number without its leading zeros
StripZeros(ds) ==
    IF \A j \in 1..Len(ds) : ds[j] = "0" THEN <<"0">>
    ELSE SubSeq(ds, CHOOSE j \in 1..Len(ds) :
                        ds[j] # "0" /\ \A k \in 1..(j - 1) : ds[k] = "0",
                Len(ds))

\* String(n) of the integer with the sign and the digits given.  A number of
\* 22 digits or more is written with an exponent; the model's numbers of
\* that size are powers of ten, and its other numbers have at most 15
\* digits, which a double holds exactly.
StringOfInt(neg, ds) ==
    LET body == IF Len(ds) >= 22
                  THEN <<"1", "e", "+">> \o NatToString(Len(ds) - 1)
                  ELSE ds
    IN  IF neg /\ ds # <<"0">> THEN <<"-">> \o body ELSE body

\* safeInt(v, fallback): String(parseInt(s, 10)), an optional sign and the
\* leading decimal digits
safeInt(v, fallback) ==
    LET s     == Trim(v)
        first == IF s # <<>> /\ s[1] \in {"-", "+"} THEN 2 ELSE 1
        e     == DigitsEnd(s, first)
    IN  IF s = <<>> \/ e = first THEN fallback
        ELSE StringOfInt(s[1] = "-", StripZeros(SubSeq(s, first, e - 1)))

\* safeNum(v, fallback = ""): String(Number(s)) of the text after a leading "$"
safeNum(v) ==
    LET t == Trim(v)
        s == IF t # <<>> /\ t[1] = "$" THEN Tail(t) ELSE t
    IN  IF s = <<>> \/ ~NumberOf(s).ok THEN <<>>
        ELSE NumToString(NumberOf(s).v)

\* s.match(/(19|20)\d{2}/) at the position j
yearAt(s, j) ==
    /\ j + 3 <= Len(s)
    /\ SubSeq(s, j, j + 1) \in {<<"1", "9">>, <<"2", "0">>}
    /\ s[j + 2] \in DigitSet
    /\ s[j + 3] \in DigitSet

normalizeYear(v) ==
    LET s == Trim(v)
        P == {j \in 1..Len(s) : yearAt(s, j)}
    IN  IF s = <<>> THEN <<>>
        ELSE IF P # {}
          THEN SubSeq(s, CHOOSE a \in P : \A b \in P : a <= b,
                         (CHOOSE a \in P : \A b \in P : a <= b) + 3)
        ELSE safeInt(s, <<>>)

\* encodeURIComponent, one character: the unreserved characters stay, the
\* others of the model's alphabet become their escapes
Escapes ==
    << <<" ", <<"%", "2", "0">> >>, <<"%", <<"%", "2", "5">> >>,
       <<"#", <<"%", "2", "3">> >>, <<"$", <<"%", "2", "4">> >>,
       <<"&", <<"%", "2", "6">> >>, <<"+", <<"%", "2", "B">> >>,
       <<",", <<"%", "2", "C">> >>, <<":", <<"%", "3", "A">> >>,
       <<";", <<"%", "3", "B">> >>, <<"=", <<"%", "3", "D">> >>,
       <<"?", <<"%", "3", "F">> >>, <<"@", <<"%", "4", "0">> >>,
       <<"[", <<"%", "5", "B">> >>, <<"]", <<"%", "5", "D">> >>,
       <<"|", <<"%", "7", "C">> >>, <<Quote, <<"%", "2", "2">> >> >>

encodeURIComponent(s) ==
    Join([j \in 1..Len(s) |->
             IF MapHas(Escapes, s[j]) THEN MapGet(Escapes, s[j]) ELSE <<s[j]>>],
         <<>>)

StartsWith(s, t) == Len(s) >= Len(t) /\ SubSeq(s, 1, Len(t)) = t

\* .replace(/^["'\[\(]+/, "").replace(/["'\]\)]+$/, "")
stripWrappers(s) ==
    LET A == {j \in 1..Len(s) : s[j] \notin {Quote, "'", "[", "("}}
        a == IF A = {} THEN Len(s) + 1 ELSE CHOOSE x \in A : \A y \in A : x <= y
        t == SubSeq(s, a, Len(s))
        B == {j \in 1..Len(t) : t[j] \notin {Quote, "'", "]", ")"}}
        b == IF B = {} THEN 0 ELSE CHOOSE x \in B : \A y \in B : x >= y
    IN  SubSeq(t, 1, b)

\* .replace(/^(\.\/|\/)+/, "")
RECURSIVE stripLead(_)
stripLead(s) ==
    IF StartsWith(s, <<".", "/">>) THEN stripLead(SubSeq(s, 3, Len(s)))
    ELSE IF StartsWith(s, <<"/">>) THEN stripLead(Tail(s))
    ELSE s

\* .split(/[\\/]/).pop()
lastSegment(s) ==
    LET P == {j \in 1..Len(s) : s[j] \in {"/", "\\"}}
    IN  IF P = {} THEN s
        ELSE SubSeq(s, (CHOOSE x \in P : \A y \in P : x >= y) + 1, Len(s))

normalizeImageUrl(v) ==
    LET s    == Trim(v)
        file == lastSegment(stripLead(stripWrappers(s)))
    IN  IF s = <<>> THEN <<>>
        ELSE IF StartsWith(s, IMAGE_BASE) THEN s
        ELSE IF StartsWith(ToLowerCase(s), <<"h", "t", "t", "p", ":", "/", "/">>)
                  \/ StartsWith(ToLowerCase(s), <<"h", "t", "t", "p", "s", ":", "/", "/">>) THEN s
        ELSE IF file = <<>> THEN <<>>
        ELSE IMAGE_BASE \o encodeURIComponent(file)

\* parseImagesField, its third case: the parts between "|", "," and ";",
\* trimmed, the empty ones left out.  (The images cells of the model are no
\* JSON array and hold no front= or back= pair.)
parseImagesField(raw) ==
    LET parts == SelectSeq([k \in 1..Len(SplitOn(normalizeText(raw), {"|", ",", ";"})) |->
                               normalizeText(SplitOn(normalizeText(raw), {"|", ",", ";"})[k])],
                           LAMBDA q : q # <<>>)
    IN  [front |-> IF Len(parts) >= 1 THEN parts[1] ELSE <<>>,
         back  |-> IF Len(parts) >= 2 THEN parts[2] ELSE <<>>]

\* the 32-bit hash of makeId in hexadecimal, kept symbolic
hash31(key) == <<"h", "(">> \o key \o <<")">>

IdFields ==
    <<<<"y", "e", "a", "r">>, <<"s", "e", "t">>, <<"c", "a", "r", "d", "_", "n", "u", "m", "b", "e", "r">>, <<"p", "l", "a", "y", "e", "r">>,
      <<"p", "a", "r", "a", "l", "l", "e", "l">>, <<"i", "n", "s", "e", "r", "t">>>>

\* makeId(row, idx), the rows counted from 1
makeId(row, idx) ==
    LET key == Join(SelectSeq([j \in 1..Len(IdFields) |->
                                  ToLowerCase(Trim(Get(row, IdFields[j])))],
                              LAMBDA q : q # <<>>),
                    <<"|">>)
    IN  IF key # <<>> THEN <<"c", "_">> \o hash31(key)
        ELSE <<"r", "o", "w", "_">> \o NatToString(idx)

escapeCell(s, delim) ==
    IF \E j \in 1..Len(s) : s[j] \in {Quote, "\n", "\r", delim}
      THEN <<Quote>>
             \o Join([j \in 1..Len(s) |->
                         IF s[j] = Quote THEN <<Quote, Quote>> ELSE <<s[j]>>], <<>>)
             \o <<Quote>>
      ELSE s

\* toDelimited(objs, delim): the text of the file
toDelimited(objs, delim) ==
    Join(<<Join(CANONICAL_HEADERS, <<delim>>)>>
           \o [r \in 1..Len(objs) |->
                 Join([c \in 1..Len(CANONICAL_HEADERS) |->
                          escapeCell(Get(objs[r], CANONICAL_HEADERS[c]), delim)],
                      <<delim>>)],
         <<"\n">>) \o <<"\n">>

CompletenessFields ==
    <<<<"i", "m", "a", "g", "e">>, <<"i", "m", "a", "g", "e", "_", "b", "a", "c", "k">>, <<"y", "e", "a", "r">>, <<"s", "e", "t">>,
      <<"c", "a", "r", "d", "_", "n", "u", "m", "b", "e", "r">>, <<"p", "l", "a", "y", "e", "r">>, <<"t", "e", "a", "m">>, <<"l", "e", "a", "g", "u", "e">>,
      <<"p", "a", "r", "a", "l", "l", "e", "l">>, <<"i", "n", "s", "e", "r", "t">>, <<"v", "a", "l", "u", "e">>>>

rowCompletenessScore(r) ==
    Cardinality({j \in 1..Len(CompletenessFields) :
                    normalizeText(Get(r, CompletenessFields[j])) # <<>>})

\* dedupeById: the Map id -> row after the rows rs, then its values
RECURSIVE dedupeMap(_, _)
dedupeMap(m, rs) ==
    IF rs = <<>> THEN m
    ELSE dedupeMap(
             IF Get(Head(rs), <<"i", "d">>) = <<>> THEN m
             ELSE IF ~MapHas(m, Get(Head(rs), <<"i", "d">>))
               THEN MapSet(m, Get(Head(rs), <<"i", "d">>), Head(rs))
             ELSE IF rowCompletenessScore(Head(rs))
                       > rowCompletenessScore(MapGet(m, Get(Head(rs), <<"i", "d">>)))
               THEN MapSet(m, Get(Head(rs), <<"i", "d">>), Head(rs))
             ELSE m,
             Tail(rs))

mapValues(m) == ArrayFrom([j \in 1..Len(m) |-> m[j][2]])

dedupeById(rows) == mapValues(dedupeMap(<<>>, rows))

\* out = {}; for (const h of CANONICAL_HEADERS) out[h] = ""
emptyRow == ArrayFrom([c \in 1..Len(CANONICAL_HEADERS) |-> <<CANONICAL_HEADERS[c], <<>> >>])

\* a variant that takes the first of the positions P
FirstOf(P) == CHOOSE a \in P : \A b \in P : a <= b

\* the last of the positions P
LastOf(P) == CHOOSE a \in P : \A b \in P : a >= b

\* copy canonical keys: the loop over Object.entries(r), cks being the
\* canonicalized keys of the entries.  A column of out ends with the value
\* of the last entry whose key canonicalizes to it.
copiedRow(out, entries, cks) ==
    ArrayFrom([c \in 1..Len(out) |->
        IF \E e \in 1..Len(entries) : cks[e] = out[c][1]
          THEN <<out[c][1],
                 normalizeText(entries[LastOf({e \in 1..Len(entries) :
                                                  cks[e] = out[c][1]})][2])>>
          ELSE out[c]])

copyCanonical(out, entries) ==
    copiedRow(out, entries,
              ArrayFrom([e \in 1..Len(entries) |-> canonicalizeHeader(entries[e][1])]))

\* out[k] = v on the row object out
SetField(out, k, v) == ArrayFrom(Put(out, k, v))

withYear(out) == SetField(out, <<"y", "e", "a", "r">>, normalizeYear(Get(out, <<"y", "e", "a", "r">>)))

\* out.quantity = safeInt(out.quantity, "1") || "1"
quantityOf(q) == IF q = <<>> THEN <<"1">> ELSE q

withQuantity_n(out) ==
    SetField(out, <<"q", "u", "a", "n", "t", "i", "t", "y">>, quantityOf(safeInt(Get(out, <<"q", "u", "a", "n", "t", "i", "t", "y">>), <<"1">>)))

withPurchasePrice(out) ==
    SetField(out, <<"p", "u", "r", "c", "h", "a", "s", "e", "_", "p", "r", "i", "c", "e">>, safeNum(Get(out, <<"p", "u", "r", "c", "h", "a", "s", "e", "_", "p", "r", "i", "c", "e">>)))

withValue(out) == SetField(out, <<"v", "a", "l", "u", "e">>, safeNum(Get(out, <<"v", "a", "l", "u", "e">>)))

withRookie(out) == SetField(out, <<"r", "o", "o", "k", "i", "e">>, toBool(Get(out, <<"r", "o", "o", "k", "i", "e">>)))

withAutograph(out) == SetField(out, <<"a", "u", "t", "o", "g", "r", "a", "p", "h">>, toBool(Get(out, <<"a", "u", "t", "o", "g", "r", "a", "p", "h">>)))

\* a || b of two strings
OrElse(a, b) == IF a # <<>> THEN a ELSE b

\* IMAGE FIX: use the images field if image is blank
imagesInto(out, parsed) ==
    SetField(SetField(out, <<"i", "m", "a", "g", "e">>, OrElse(parsed.front, Get(out, <<"i", "m", "a", "g", "e">>))),
        <<"i", "m", "a", "g", "e", "_", "b", "a", "c", "k">>, OrElse(parsed.back, Get(out, <<"i", "m", "a", "g", "e", "_", "b", "a", "c", "k">>)))

withImages(out, r) ==
    IF Get(out, <<"i", "m", "a", "g", "e">>) = <<>> /\ normalizeText(Get(r, Col_images)) # <<>>
      THEN imagesInto(out, parseImagesField(normalizeText(Get(r, Col_images))))
      ELSE out

withImageUrl(out) == SetField(out, <<"i", "m", "a", "g", "e">>, normalizeImageUrl(Get(out, <<"i", "m", "a", "g", "e">>)))

withImageBackUrl(out) ==
    SetField(out, <<"i", "m", "a", "g", "e", "_", "b", "a", "c", "k">>, normalizeImageUrl(Get(out, <<"i", "m", "a", "g", "e", "_", "b", "a", "c", "k">>)))

withId(out, idx) ==
    SetField(out, <<"i", "d">>, OrElse(normalizeText(Get(out, <<"i", "d">>)), makeId(out, idx)))

withTimestamp_n(out, now) ==
    IF Get(out, <<"t", "i", "m", "e", "s", "t", "a", "m", "p">>) = <<>> THEN SetField(out, <<"t", "i", "m", "e", "s", "t", "a", "m", "p">>, now) ELSE out

withCurrency(out) ==
    IF Get(out, <<"c", "u", "r", "r", "e", "n", "c", "y">>) = <<>> THEN SetField(out, <<"c", "u", "r", "r", "e", "n", "c", "y">>, <<"U", "S", "D">>) ELSE out

withCondition(out) ==
    IF Get(out, <<"c", "o", "n", "d", "i", "t", "i", "o", "n">>) = <<>>
      THEN SetField(out, <<"c", "o", "n", "d", "i", "t", "i", "o", "n">>,
               IF Get(out, <<"g", "r", "a", "d", "e">>) # <<>> THEN <<"g", "r", "a", "d", "e", "d">> ELSE <<"r", "a", "w">>)
      ELSE out

\* the callback of rows.map in main(): the row r, the idx-th of the file
\* (counted from 1), normalized at the time `now`
normalizeRow(r, idx, now) ==
    withCondition(withCurrency(withTimestamp_n(withId(
        withImageBackUrl(withImageUrl(withImages(
            withAutograph(withRookie(withValue(withPurchasePrice(
                withQuantity_n(withYear(copyCanonical(emptyRow, r))))))),
            r))),
        idx), now)))

\* raw.split("\n").map((l) => l.replace(/\r/g, "")), the leading blank lines
\* shifted off
linesOf(text) ==
    LET ls == ArrayFrom([k \in 1..Len(SplitOn(text, {"\n"})) |->
                  SelectSeq(SplitOn(text, {"\n"})[k], LAMBDA c : c # "\r")])
        P  == {k \in 1..Len(ls) : ~IsBlank(ls[k])}
    IN  IF P = {} THEN <<>>
        ELSE SubSeq(ls, CHOOSE a \in P : \A b \in P : a <= b, Len(ls))

\* cells[c] ?? "", white space trimmed
cellOrEmpty(cells, c) == IF c <= Len(cells) THEN normalizeText(cells[c]) ELSE <<>>

\* the loop obj[headerCanon[c]] = cells[c] ?? "": a column stands where its
\* name comes first in the header line (the positions F) and holds the cell
\* under the last column of that name
rowObjectAt(headerCanon, cells, F) ==
    ArrayFrom([k \in 1..Cardinality(F) |->
        <<headerCanon[NthOf(F, k)],
          cellOrEmpty(cells, LastOf({c \in 1..Len(headerCanon) :
                                        headerCanon[c] = headerCanon[NthOf(F, k)]}))>>])

rowObject(headerCanon, cells) ==
    rowObjectAt(headerCanon, cells,
                {c \in 1..Len(headerCanon) :
                    \A d \in 1..(c - 1) : headerCanon[d] # headerCanon[c]})

headerCells(cells) ==
    ArrayFrom([c \in 1..Len(cells) |-> canonicalizeHeader(normalizeText(cells[c]))])

headerCanonOf(line, delim) == headerCells(splitLine(line, delim))

rowsOfLines(ls, delim, headerCanon) ==
    ArrayFrom([k \in 1..Len(ls) |-> rowObject(headerCanon, splitLine(ls[k], delim))])

\* the rows main() parses from the lines `lines` (the first is the header line)
parseRows(lines) ==
    rowsOfLines(SelectSeq(Tail(lines), LAMBDA l : ~IsBlank(l)),
                detectDelimiter_n(lines[1]),
                headerCanonOf(lines[1], detectDelimiter_n(lines[1])))

\* main() from the text of an input file to the rows it writes, every row
\* normalized at the time `now`
normalizedAll(rows, now) ==
    ArrayFrom([k \in 1..Len(rows) |-> normalizeRow(rows[k], k, now)])

rerun(text, now) == dedupeById(normalizedAll(parseRows(linesOf(text)), now))

\* ------------------------------------------------------------------
\* The command line
\* ------------------------------------------------------------------
FlagFillBlanks == <<"-", "-", "f", "i", "l", "l", "-", "b", "l", "a", "n", "k", "s">>

FlagMergeValues == <<"-", "-", "m", "e", "r", "g", "e", "-", "v", "a", "l", "u", "e", "s">>

\* args.indexOf(x), counted from 1: 0 when x is no element
IndexOf(args, x) ==
    IF \E j \in 1..Len(args) : args[j] = x
      THEN CHOOSE j \in 1..Len(args) :
               args[j] = x /\ \A k \in 1..(j - 1) : args[k] # x
      ELSE 0

\* argValue(flag, fallback) of part_001, argVal(name, def) of the hybrid
\* scripts: the element after the first element equal to the flag
argValue(args, name, fallback) ==
    LET j == IndexOf(args, name)
    IN  IF j = 0 THEN fallback
        ELSE IF j + 1 <= Len(args) THEN args[j + 1]
        ELSE fallback

\* hasFlag(flag) of part_001, flag(name) of the hybrid scripts
hasFlag(args, name) == \E j \in 1..Len(args) : args[j] = name

\* (argValue("--merge-values", "keep_old") || "keep_old").toLowerCase()
mergeValuesOf(args) ==
    LET v == argValue(args, FlagMergeValues, StrKeepOld)
    IN  ToLowerCase(IF v = <<>> THEN StrKeepOld ELSE v)

\* ------------------------------------------------------------------
\* State
\* ------------------------------------------------------------------
VARIABLES
    prog,          \* the script that runs: "merge_hybrid", "part_000" or "dedupe"
    pc,            \* the place of main() in it
    argv,          \* process.argv after the name of the script
    inFiles,       \* the input files that exist
    outFiles,      \* the state of each output file
    exit,          \* whether the process has ended, and its exit code
    stderr,        \* the messages written to stderr
    raw,           \* normalizer: the text of the input file
    parsedRows,    \* normalizer: the rows parsed from it
    normalized,    \* normalizer: the rows normalized so far
    canonical,     \* normalizer: the text of the CSV file it wrote
    query,         \* card browser: the sort key, the direction and the two cards compared
    amounts,       \* card browser: the results of money() in the comparison
    compared,      \* card browser: the sign of the result of the comparison
    keys,          \* the Identity Keys and the Strict Duplicate Keys computed for heap
    ebay,          \* eBay add: the texts of the inventory and of the eBay file, and the run
    runs,          \* two invocations on the same output paths: where each one is
    FILL_BLANKS,   \* --fill-blanks
    MERGE_VALUES,  \* --merge-values (dedupe)
    heap,          \* the JS objects, a row being referred to by its index
    i,             \* the row the loop of main() comes to next
    oldRows,       \* hybrid: the rows of the old (authoritative) file
    newRows,       \* hybrid: the rows of the normalized (reference) file
    oldHeaders,    \* hybrid: the header line of the old file
    newHeaders,    \* hybrid: the header line of the normalized file
    index,         \* hybrid: Map key -> list of normalized rows
    matched,       \* merge_hybrid: the output rows
    unmatchedOld,  \* merge_hybrid: the report entries of unmatched rows
    ambiguous,     \* merge_hybrid: the report entries of ambiguous rows
    usedNewKeys,   \* merge_hybrid: Set of keys
    merged,        \* part_000: the output rows
    counts,        \* part_000: the counters matched, unmatched, ambiguous
    usedNewIds,    \* part_000: Set of ids
    examples,      \* part_000: the bounded report samples
    headers,       \* dedupe: the header line
    objects,       \* dedupe: the rows of the input file
    map,           \* dedupe: Map key -> row
    dupes,         \* dedupe: the duplicate groups of the report
    mergedCount,   \* dedupe
    deduped,       \* dedupe: the output rows
    report,        \* the results of the report, once written
    mergedWith     \* history: for each old row processed so far, the normalized
                   \* row that was merged into it, 0 when none was

vars == <<prog, pc, argv, inFiles, outFiles, exit, stderr, raw, parsedRows, normalized,
          canonical, query, amounts, compared, keys, ebay, runs, FILL_BLANKS, MERGE_VALUES, heap, i, oldRows, newRows,
          oldHeaders, newHeaders, index, matched, unmatchedOld, ambiguous,
          usedNewKeys, merged, counts, usedNewIds, examples, headers, objects,
          map, dupes, mergedCount, deduped, report, mergedWith>>

procVars == <<argv, inFiles, outFiles, exit, stderr>>

normVars == <<raw, parsedRows, normalized, canonical>>

queryVars == <<query, amounts, compared>>

\* the state of the eBay add and of two runs on the same output paths
sideVars == <<ebay, runs>>

\* no eBay file is read
NoEbay == [inventory |-> <<>>, bulk |-> <<>>, run |-> 0]

\* no second run is started
NoRuns == <<>>

\* no key is computed
NoKeys == [identity |-> <<>>, strict |-> <<>>, old |-> <<>>]

\* no comparison is asked for
NoQuery == [sort |-> "", dir |-> "", a |-> <<>>, b |-> <<>>]

hybridVars == <<oldRows, newRows, oldHeaders, newHeaders>>

jsVars == <<matched, unmatchedOld, ambiguous, usedNewKeys>>

p0Vars == <<merged, counts, usedNewIds, examples>>

dedupeVars == <<headers, objects, map, dupes, mergedCount, deduped>>

\* ------------------------------------------------------------------
\* Bounds and input files of the model
\* ------------------------------------------------------------------
\* the most rows of the old file
MaxOld == 2

\* the most rows of the normalized file
MaxNew == 3

\* the most rows of the dedupe input
MaxRows == 3

\* a row object as toObjects / parseDelimited builds it: one column per header
MkRow(hs, cells) == [j \in 1..Len(hs) |-> <<hs[j], cells[j]>>]

\* the subsequences of q of length at most n, in the order of q
RECURSIVE SubSeqsUpTo(_, _)
SubSeqsUpTo(q, n) ==
    IF q = <<>> \/ n = 0 THEN {<<>>}
    ELSE LET front == SubSeq(q, 1, Len(q) - 1)
         IN  SubSeqsUpTo(front, n)
                 \cup {Append(r, q[Len(q)]) : r \in SubSeqsUpTo(front, n - 1)}

Messi == <<"M", "e", "s", "s", "i">>

PSG == <<"P", "S", "G">>

\* Header lines of the old file: research columns, three of them under the
\* names the normalized schema uses too; the second is the header line of a
\* file that a former hybrid merge wrote (it has a norm_ column already).
OldHeaderLines ==
    { << <<"Player">>, <<"card_number">>, <<"team">>, <<"League">>, <<"Title">>,
         <<"notes">> >>,
      << <<"Player">>, <<"card_number">>, <<"team">>, <<"League">>, <<"Title">>,
         <<"notes">>, <<"norm_", "team">> >> }

\* the cells of the rows of the old file, in the order they have in the file;
\* the cells of a row are in the order of the longer header line
OldCellPool ==
    << <<Messi, <<"7">>, PSG, <<"L", "1">>, <<>>, <<"m", "y">>, <<"O", "l", "d">> >>,
      <<Messi, <<"7">>, <<>>, <<>>, <<>>, <<>>, <<>> >>,
      <<Messi, <<"7">>, <<"P", "S", "G", " ", "F", "C">>, <<"L", "1">>, <<>>, <<>>, <<>> >>,
      << <<"M", "E", "S", "S", "I">>, <<>>, PSG, <<>>, <<>>, <<>>, <<"O", "l", "d">> >>,
      << <<"P", "e", "l", "e">>, <<>>, <<>>, <<>>,
         <<"F", "I", "F", "A", " ", "1", "0", " ", "P", "e", "l", "e">>, <<"x">>, <<>> >> >>

NewHeaderLine ==
    << <<"id">>, <<"player">>, <<"card_number">>, <<"team">>, <<"league">>,
       <<"notes">> >>

\* the rows of the normalized file, in the order they have in the file
NewCellPool ==
    << << <<"n", "1">>, Messi, <<"7">>, PSG, <<"L", "1">>, <<"r", "e", "f">> >>,
       << <<"n", "2">>, Messi, <<"7">>, <<>>, <<>>, <<>> >>,
       << <<"n", "5">>, <<"m", "e", "s", "s", "i">>, <<"7">>, <<>>, <<"L", "1">>, <<>> >>,
       << <<>>, Messi, <<>>, PSG, <<>>, <<"r", "e", "f">> >>,
       << <<"n", "4">>, Messi, <<>>, <<"I", "n", "t", "e", "r">>, <<>>, <<>> >> >>

\* Header lines of the dedupe input: the full schema, and a file that lacks
\* most of the required columns
FullHeaders ==
    KeyFields \o << <<"quantity">>, <<"id">>, <<"notes">>, <<"timestamp">>,
                    <<"value">>, <<"image">>, <<"purchase_price">> >>

ShortHeaders == << <<"player">>, <<"card_number">>, <<"parallel">>, <<"notes">> >>

DedupeHeaderLines == {FullHeaders, ShortHeaders}

\* the columns the rows of the pool fill; every other cell is empty
PoolColumns ==
    << <<"player">>, <<"card_number">>, <<"parallel">>, <<"quantity">>, <<"id">>,
       <<"notes">>, <<"timestamp">>, <<"value">>, <<"image">>, <<"purchase_price">> >>

\* the rows of the dedupe input, in the order they have in the file
DedupeCellPool ==
    << <<Messi, <<"7">>, <<>>, <<"1">>, <<"c", "1">>, <<"a">>,
        <<"2", "0", "2", "4">>, <<"1", "0">>, <<"x">>, <<"4">> >>,
      << <<"m", "e", "s", "s", "i", " ">>, <<"7">>, <<>>, <<"2">>, <<>>, <<"b">>,
         <<"2", "0", "2", "3">>, <<"2", ".", "5">>, <<>>, <<"1", "2">> >>,
      <<Messi, <<"7">>, <<>>, <<>>, <<>>, <<>>, <<>>, <<>>, <<"y">>, <<>> >>,
      <<Messi, <<"7">>, <<>>, <<"-", "1">>, <<"c", "4">>, <<"a">>, <<"2", "0", "2", "5">>,
        <<"$", "3">>, <<>>, <<>> >>,
      <<Messi, <<"7">>, <<"G", "o", "l", "d">>, <<"3">>, <<"c", "5">>, <<>>,
        <<"2", "0", "2", "4">>, <<>>, <<>>, <<>> >>,
      <<Messi, <<"7">>, <<>>, <<"x">>, <<>>, <<>>, <<>>, <<"a", "b", "c">>, <<>>,
        <<"0", ".", "5">> >> >>

\* the row object of the cells `cells` of the pool under the header line hs
DedupeRow(hs, cells) ==
    [j \in 1..Len(hs) |->
        <<hs[j],
          IF \E c \in 1..Len(PoolColumns) : PoolColumns[c] = hs[j]
            THEN cells[CHOOSE c \in 1..Len(PoolColumns) : PoolColumns[c] = hs[j]]
            ELSE <<>> >>]

MergeStrategies == {StrKeepOld, StrMax, StrMin, StrNewest}

\* ------------------------------------------------------------------
\* The files and the end of the process
\* ------------------------------------------------------------------
\* the default paths (path.resolve left out)
OLD_PATH == "public/inventory.csv"

NEW_PATH == "data/full_card_inventory.normalized.csv"

inPath == "data/inventory.hybrid.csv"

\* the output files in the order main() writes them
OutOrder == <<"csv", "tsv", "report">>

OutNames == {OutOrder[j] : j \in 1..Len(OutOrder)}

Running == [done |-> FALSE, code |-> 0]

Exited(c) == [done |-> TRUE, code |-> c]

\* fs.writeFileSync writes the file or throws; a call that throws leaves the
\* file as it was or cut short.  An outcome is the number n of calls that
\* return and what the call that throws leaves behind.
WriteOutcomes ==
    {[n |-> Len(OutOrder), left |-> "written"]}
      \cup {[n |-> k, left |-> l] : k \in 0..(Len(OutOrder) - 1),
                                     l \in {"before", "truncated"}}

filesAfter(files, o) ==
    [f \in OutNames |->
        IF IndexOf(OutOrder, f) <= o.n THEN "written"
        ELSE IF IndexOf(OutOrder, f) = o.n + 1 /\ o.left # "before" THEN o.left
        ELSE files[f]]

\* the three writes at the end of main(): the process ends with code 0 when
\* all return, and with the uncaught exception (code 1) otherwise
WriteOutputs(o) ==
    /\ outFiles' = filesAfter(outFiles, o)
    /\ IF o.n = Len(OutOrder)
         THEN /\ pc' = "done"
              /\ exit' = Exited(0)
              /\ stderr' = stderr
         ELSE /\ pc' = "exit1"
              /\ exit' = Exited(1)
              /\ stderr' = Append(stderr, [text |-> "write failed: ",
                                            path |-> OutOrder[o.n + 1]])
    /\ UNCHANGED <<argv, inFiles>>

\* a variant that ends the process quietly with the code 0
AbortQuietly(text, path) ==
    /\ pc' = "exit1"
    /\ exit' = Exited(0)
    /\ stderr' = stderr
    /\ UNCHANGED <<argv, inFiles, outFiles>>

\* console.error(text + path); process.exit(1), or the uncaught Error
Abort(text, path) ==
    /\ pc' = "exit1"
    /\ exit' = Exited(1)
    /\ stderr' = Append(stderr, [text |-> text, path |-> path])
    /\ UNCHANGED <<argv, inFiles, outFiles>>

\* the command lines of the runs
HybridArgvPool == {<<>>, <<FlagFillBlanks>>}

DedupeArgvPool ==
    {<<>>,
     <<FlagFillBlanks>>,
     <<FlagMergeValues>>,
     <<FlagMergeValues, StrMax>>,
     <<FlagMergeValues, <<"M", "I", "N">>>>,
     <<FlagMergeValues, StrNewest>>,
     <<FlagMergeValues \o <<"=">> \o StrMax>>,
     <<FlagFillBlanks, FlagMergeValues, StrMax>>,
     <<FlagFillBlanks, FlagMergeValues, StrMin>>,
     <<FlagMergeValues, StrNewest, FlagFillBlanks>>}

\* ------------------------------------------------------------------
\* Init: the state when main() starts; the rows are those of the input
\* files, none when a file is missing
\* ------------------------------------------------------------------
NoReport ==
    [written |-> FALSE, matched |-> 0, unmatched |-> 0, ambiguous |-> 0,
     output_rows |-> 0, unused_normalized_count_estimate |-> 0,
     unused_sample |-> <<>>, rows_in |-> 0, rows_out |-> 0, merged_rows |-> 0,
     duplicate_groups |-> 0]

InitCommon ==
    /\ i = 1
    /\ index = <<>>
    /\ matched = <<>>
    /\ unmatchedOld = <<>>
    /\ ambiguous = <<>>
    /\ usedNewKeys = {}
    /\ merged = <<>>
    /\ counts = [matched |-> 0, unmatched |-> 0, ambiguous |-> 0]
    /\ usedNewIds = {}
    /\ examples = [unmatched_old_rows |-> <<>>, ambiguous_old_rows |-> <<>>]
    /\ map = <<>>
    /\ dupes = <<>>
    /\ mergedCount = 0
    /\ deduped = <<>>
    /\ report = NoReport
    /\ mergedWith = <<>>
    /\ outFiles = [f \in OutNames |-> "before"]
    /\ exit = Running
    /\ stderr = <<>>
    /\ parsedRows = <<>>
    /\ normalized = <<>>
    /\ canonical = <<>>
    /\ amounts = <<>>
    /\ compared = "none"
    /\ keys = NoKeys
    /\ ebay = NoEbay
    /\ runs = NoRuns

InitHybrid ==
    /\ prog \in {"merge_hybrid", "part_000"}
    /\ pc = "index"
    /\ argv \in HybridArgvPool
    /\ inFiles \in SUBSET {"old", "new"}
    /\ FILL_BLANKS = hasFlag(argv, FlagFillBlanks)
    /\ MERGE_VALUES = StrKeepOld
    /\ query = NoQuery
    /\ IF inFiles = {"old", "new"}
         THEN /\ oldHeaders \in OldHeaderLines
              /\ newHeaders = NewHeaderLine
              /\ \E olds \in SubSeqsUpTo(OldCellPool, MaxOld),
                     news \in SubSeqsUpTo(NewCellPool, MaxNew) :
                    /\ heap = [j \in 1..Len(olds) |-> MkRow(oldHeaders, olds[j])]
                                \o [j \in 1..Len(news) |-> MkRow(newHeaders, news[j])]
                    /\ oldRows = [j \in 1..Len(olds) |-> j]
                    /\ newRows = [j \in 1..Len(news) |-> Len(olds) + j]
         ELSE /\ oldHeaders = <<>>
              /\ newHeaders = <<>>
              /\ heap = <<>>
              /\ oldRows = <<>>
              /\ newRows = <<>>
    /\ headers = <<>>
    /\ objects = <<>>
    /\ raw = <<>>
    /\ InitCommon

InitDedupe ==
    /\ prog = "dedupe"
    /\ pc = "prepare"
    /\ argv \in DedupeArgvPool
    /\ inFiles \in SUBSET {"in"}
    /\ FILL_BLANKS = hasFlag(argv, FlagFillBlanks)
    /\ MERGE_VALUES = mergeValuesOf(argv)
    /\ query = NoQuery
    /\ IF inFiles = {"in"}
         THEN /\ headers \in DedupeHeaderLines
              /\ \E rows \in SubSeqsUpTo(DedupeCellPool, MaxRows) :
                    /\ heap = [j \in 1..Len(rows) |-> DedupeRow(headers, rows[j])]
                    /\ objects = [j \in 1..Len(rows) |-> j]
         ELSE /\ headers = <<>>
              /\ heap = <<>>
              /\ objects = <<>>
    /\ oldRows = <<>>
    /\ newRows = <<>>
    /\ oldHeaders = <<>>
    /\ newHeaders = <<>>
    /\ raw = <<>>
    /\ InitCommon

Init == InitHybrid \/ InitDedupe

\* ------------------------------------------------------------------
\* main() of scripts/merge_hybrid_inventory.js
\* ------------------------------------------------------------------
\* -Infinity of the scoring loop, below every score (in half points)
NegInfinity == -1000

\* the floor of an accepted match
ScoreFloor == 8

\* the least gap between the best and the second best score
ScoreGap == 1

\* the index of the normalized rows built by the loop over newRows
RECURSIVE buildIndex(_, _, _)
buildIndex(h, rows, idx) ==
    IF rows = <<>> THEN idx
    ELSE LET k    == keyFromNew(h[Head(rows)])
             list == IF MapHas(idx, k) THEN MapGet(idx, k) ELSE <<>>
         IN  buildIndex(h, Tail(rows), MapSet(idx, k, Append(list, Head(rows))))

\* index.get(k) || []
candidatesOf(idx, k) == IF MapHas(idx, k) THEN MapGet(idx, k) ELSE <<>>

\* the scoring loop over the candidates: best (0 is null), bestScore and
\* secondBestScore, in half points
RECURSIVE scoreCandidates(_, _, _, _)
scoreCandidates(h, o, cands, acc) ==
    IF cands = <<>> THEN acc
    ELSE LET c == Head(cands)
             sc == scoreMatch2(h[o], h[c])
             next == IF sc > acc.bestScore
                       THEN [best |-> c, bestScore |-> sc, secondBestScore |-> acc.bestScore]
                     ELSE IF sc > acc.secondBestScore
                       THEN [acc EXCEPT !.secondBestScore = sc]
                     ELSE acc
         IN  scoreCandidates(h, o, Tail(cands), next)

scoredBest(h, o, cands) ==
    scoreCandidates(h, o, cands,
        [best |-> 0, bestScore |-> NegInfinity, secondBestScore |-> NegInfinity])

\* best && bestScore >= 8 && gap >= 1
clearlyBest(sb) ==
    /\ sb.best # 0
    /\ sb.bestScore >= 2 * ScoreFloor
    /\ sb.bestScore - sb.secondBestScore >= 2 * ScoreGap

BuildIndex_js ==
    /\ prog = "merge_hybrid"
    /\ UNCHANGED <<normVars, queryVars, keys, sideVars>>
    /\ pc = "index"
    /\ IF "old" \notin inFiles
         THEN Abort("File not found: ", OLD_PATH) /\ index' = index
         ELSE IF "new" \notin inFiles
           THEN Abort("File not found: ", NEW_PATH) /\ index' = index
         ELSE /\ index' = buildIndex(heap, newRows, <<>>)
              /\ pc' = "loop"
              /\ UNCHANGED procVars
    /\ UNCHANGED <<prog, FILL_BLANKS, MERGE_VALUES, heap, i, hybridVars, jsVars,
                   p0Vars, dedupeVars, report>>
    /\ UNCHANGED mergedWith

\* the row o has two or more candidates; sb is the result of the scoring loop
Scored_js(o, k, candidates, sb, top) ==
    IF clearlyBest(sb)
      THEN /\ usedNewKeys' = usedNewKeys \cup {k}
           /\ heap' = top.heap
           /\ matched' = Append(matched, top.ref)
           /\ mergedWith' = Append(mergedWith, sb.best)
           /\ UNCHANGED <<unmatchedOld, ambiguous>>
      ELSE /\ ambiguous' = Append(ambiguous,
                   [key |-> k, bestScore |-> sb.bestScore,
                    secondBestScore |-> sb.secondBestScore, old |-> o,
                    candidates_count |-> Len(candidates)])
           /\ matched' = Append(matched, o)
           /\ mergedWith' = Append(mergedWith, 0)
           /\ UNCHANGED <<heap, unmatchedOld, usedNewKeys>>

\* the row o has exactly one candidate, c; one is the result of mergeRows
Single_js(k, c, one) ==
    /\ usedNewKeys' = usedNewKeys \cup {k}
    /\ heap' = one.heap
    /\ matched' = Append(matched, one.ref)
    /\ mergedWith' = Append(mergedWith, c)
    /\ UNCHANGED <<unmatchedOld, ambiguous>>

\* the body of the loop for the row o with the key k and its candidates
Classify_js(o, k, candidates) ==
    IF candidates = <<>>
      THEN /\ unmatchedOld' = Append(unmatchedOld, [key |-> k, row |-> heap[o]])
           /\ matched' = Append(matched, o)
           /\ mergedWith' = Append(mergedWith, 0)
           /\ UNCHANGED <<heap, ambiguous, usedNewKeys>>
    ELSE IF Len(candidates) = 1
      THEN Single_js(k, candidates[1], mergeRows(heap, o, candidates[1], FILL_BLANKS))
    ELSE Scored_js(o, k, candidates, scoredBest(heap, o, candidates),
                   mergeRows(heap, o, scoredBest(heap, o, candidates).best, FILL_BLANKS))

Keyed_js(o, k) == Classify_js(o, k, candidatesOf(index, k))

\* one turn of the loop `for (const o of oldRows)`
ProcessOld_js ==
    /\ prog = "merge_hybrid"
    /\ UNCHANGED <<normVars, queryVars, keys, sideVars>>
    /\ pc = "loop"
    /\ i <= Len(oldRows)
    /\ Keyed_js(oldRows[i], keyFromOld(heap[oldRows[i]]))
    /\ i' = i + 1
    /\ UNCHANGED <<prog, pc, FILL_BLANKS, MERGE_VALUES, hybridVars, index, p0Vars,
                   dedupeVars, report>>
    /\ UNCHANGED procVars

\* the key sample of the report holds at most this many keys
UnusedKeySample == 50

\* unusedEstimate: the loop over index.entries()
RECURSIVE unusedEstimate(_, _)
unusedEstimate(idx, used) ==
    IF idx = <<>> THEN 0
    ELSE (IF Head(idx)[1] \notin used
            THEN (IF Len(Head(idx)[2]) > 1 THEN Len(Head(idx)[2]) ELSE 1)
            ELSE 0)
         + unusedEstimate(Tail(idx), used)

\* Array.from(index.keys()).filter((k) => !usedNewKeys.has(k))
RECURSIVE unusedKeys(_, _)
unusedKeys(idx, used) ==
    IF idx = <<>> THEN <<>>
    ELSE (IF Head(idx)[1] \notin used THEN <<Head(idx)[1]>> ELSE <<>>)
         \o unusedKeys(Tail(idx), used)

\* Array.prototype.slice(0, n)
Slice(q, n) == SubSeq(q, 1, IF Len(q) < n THEN Len(q) ELSE n)

Report_js ==
    /\ prog = "merge_hybrid"
    /\ UNCHANGED <<normVars, queryVars, keys, sideVars>>
    /\ pc = "loop"
    /\ i > Len(oldRows)
    /\ \E o \in WriteOutcomes :
          /\ WriteOutputs(o)
          /\ report' =
                IF o.n < Len(OutOrder) THEN report
                ELSE [NoReport EXCEPT
                  !.written = TRUE,
                  !.matched = Len(matched) - Len(unmatchedOld) - Len(ambiguous),
                  !.unmatched = Len(unmatchedOld),
                  !.ambiguous = Len(ambiguous),
                  !.output_rows = Len(matched),
                  !.unused_normalized_count_estimate = unusedEstimate(index, usedNewKeys),
                  !.unused_sample = Slice(unusedKeys(index, usedNewKeys), UnusedKeySample)]
    /\ UNCHANGED <<prog, FILL_BLANKS, MERGE_VALUES, heap, i, hybridVars, index,
                   jsVars, p0Vars, dedupeVars>>
    /\ UNCHANGED mergedWith

\* ------------------------------------------------------------------
\* main() of the second copy of the hybrid merge (part_000)
\* ------------------------------------------------------------------
\* the report samples of unmatched and ambiguous rows hold at most this many
ExampleLimit == 10

\* the report sample of unused normalized rows holds at most this many
UnusedRowSample == 25

RECURSIVE buildIndex_p0(_, _, _)
buildIndex_p0(h, rows, idx) ==
    IF rows = <<>> THEN idx
    ELSE LET k    == keyFromNew_p0(h[Head(rows)])
             list == IF MapHas(idx, k) THEN MapGet(idx, k) ELSE <<>>
         IN  buildIndex_p0(h, Tail(rows),
                 IF k = <<>> THEN idx ELSE MapSet(idx, k, Append(list, Head(rows))))

BuildIndex_p0 ==
    /\ prog = "part_000"
    /\ UNCHANGED <<normVars, queryVars, keys, sideVars>>
    /\ pc = "index"
    /\ IF "old" \notin inFiles
         THEN Abort("Missing old CSV: ", OLD_PATH) /\ index' = index
         ELSE IF "new" \notin inFiles
           THEN Abort("Missing normalized CSV: ", NEW_PATH) /\ index' = index
         ELSE /\ index' = buildIndex_p0(heap, newRows, <<>>)
              /\ pc' = "loop"
              /\ UNCHANGED procVars
    /\ UNCHANGED <<prog, FILL_BLANKS, MERGE_VALUES, heap, i, hybridVars, jsVars,
                   p0Vars, dedupeVars, report>>
    /\ UNCHANGED mergedWith

\* candidates.map((c) => ({ c, s: scoreMatch(oldRow, c) })).sort(...)
scoredCandidates(h, o, cands) ==
    SortByScore([j \in 1..Len(cands) |-> <<cands[j], scoreMatch_p0(h[o], h[cands[j]])>>])

\* best (0 is null), bestScore, and whether the row is counted ambiguous
pickBest_p0(h, o, cands) ==
    IF Len(cands) = 1
      THEN [best |-> cands[1], bestScore |-> scoreMatch_p0(h[o], h[cands[1]]),
            close |-> FALSE]
    ELSE IF Len(cands) > 1
      THEN LET scored == scoredCandidates(h, o, cands)
           IN  [best |-> scored[1][1], bestScore |-> scored[1][2],
                close |-> scored[2][2] >= scored[1][2] - 1]
    ELSE [best |-> 0, bestScore |-> -1, close |-> FALSE]

\* best && bestScore >= 8
goodEnough(pb) == pb.best # 0 /\ pb.bestScore >= ScoreFloor

\* the body of the callback for oldRow with the key k; pb is the best
\* candidate picked, outRow the reference of the copy { ...oldRow }
Classify_p0(oldRow, k, pb, outRow, good) ==
    /\ counts' = [matched   |-> counts.matched + (IF good THEN 1 ELSE 0),
                  unmatched |-> counts.unmatched + (IF good THEN 0 ELSE 1),
                  ambiguous |-> counts.ambiguous + (IF pb.close THEN 1 ELSE 0)]
    /\ examples' =
         [ambiguous_old_rows |->
             IF pb.close /\ Len(examples.ambiguous_old_rows) < ExampleLimit
               THEN Append(examples.ambiguous_old_rows, k)
               ELSE examples.ambiguous_old_rows,
          unmatched_old_rows |->
             IF ~good /\ Len(examples.unmatched_old_rows) < ExampleLimit
               THEN Append(examples.unmatched_old_rows, k)
               ELSE examples.unmatched_old_rows]
    /\ usedNewIds' = IF good /\ Get(heap[pb.best], <<"id">>) # <<>>
                       THEN usedNewIds \cup {Get(heap[pb.best], <<"id">>)}
                       ELSE usedNewIds
    /\ heap' = IF good
                 THEN fillOrKeep(Append(heap, heap[oldRow]), outRow, pb.best, FILL_BLANKS)
                 ELSE Append(heap, heap[oldRow])
    /\ merged' = Append(merged, outRow)
    /\ mergedWith' = Append(mergedWith, IF good THEN pb.best ELSE 0)

Picked_p0(oldRow, k, pb) == Classify_p0(oldRow, k, pb, Len(heap) + 1, goodEnough(pb))

Keyed_p0(oldRow, k) ==
    Picked_p0(oldRow, k, pickBest_p0(heap, oldRow, candidatesOf(index, k)))

\* one turn of oldObjs.map((oldRow) => ...)
ProcessOld_p0 ==
    /\ prog = "part_000"
    /\ UNCHANGED <<normVars, queryVars, keys, sideVars>>
    /\ pc = "loop"
    /\ i <= Len(oldRows)
    /\ Keyed_p0(oldRows[i], keyFromOld_p0(heap[oldRows[i]]))
    /\ i' = i + 1
    /\ UNCHANGED <<prog, pc, FILL_BLANKS, MERGE_VALUES, hybridVars, index, jsVars,
                   dedupeVars, report>>
    /\ UNCHANGED procVars

\* the loop that collects the normalized rows that were never used
RECURSIVE unusedNormalized(_, _, _, _)
unusedNormalized(h, rows, used, acc) ==
    IF rows = <<>> THEN acc
    ELSE LET id == Get(h[Head(rows)], <<"id">>)
         IN  unusedNormalized(h, Tail(rows), used,
                 IF id # <<>> /\ id \notin used /\ Len(acc) < UnusedRowSample
                   THEN Append(acc, Head(rows))
                   ELSE acc)

Report_p0 ==
    /\ prog = "part_000"
    /\ UNCHANGED <<normVars, queryVars, keys, sideVars>>
    /\ pc = "loop"
    /\ i > Len(oldRows)
    /\ \E o \in WriteOutcomes :
          /\ WriteOutputs(o)
          /\ report' =
                IF o.n < Len(OutOrder) THEN report
                ELSE [NoReport EXCEPT
                  !.written = TRUE,
                  !.matched = counts.matched,
                  !.unmatched = counts.unmatched,
                  !.ambiguous = counts.ambiguous,
                  !.output_rows = Len(merged),
                  !.unused_normalized_count_estimate =
                      Len(newRows) - Cardinality(usedNewIds),
                  !.unused_sample = unusedNormalized(heap, newRows, usedNewIds, <<>>)]
    /\ UNCHANGED <<prog, FILL_BLANKS, MERGE_VALUES, heap, i, hybridVars, index,
                   jsVars, p0Vars, dedupeVars>>
    /\ UNCHANGED mergedWith

\* ------------------------------------------------------------------
\* main() of the parallel-aware dedupe (part_001)
\* ------------------------------------------------------------------
required ==
    KeyFields \o << <<"quantity">> >>

\* headers.push(r) for every required column the header line lacks
withRequired(hs, req) == hs \o SelectSeq(req, LAMBDA r : ~InHeaders(hs, r))

\* o[r] = o[r] ?? "" for every required column r the header line lacked
addMissing(o, hs, req) ==
    o \o [j \in 1..Len(SelectSeq(req, LAMBDA r : ~InHeaders(hs, r) /\ ~Has(o, r))) |->
             <<SelectSeq(req, LAMBDA r : ~InHeaders(hs, r) /\ ~Has(o, r))[j], <<>> >>]

\* if (!String(o.quantity ?? "").trim()) o.quantity = "1"
defaultQuantity(o) ==
    IF IsBlank(Get(o, <<"quantity">>)) THEN Put(o, <<"quantity">>, <<"1">>) ELSE o

\* the start of main(): the emptiness check, the required columns, the
\* default quantity; the input objects themselves are written
Prepare_d ==
    /\ prog = "dedupe"
    /\ UNCHANGED <<normVars, queryVars, keys, sideVars>>
    /\ pc = "prepare"
    /\ IF "in" \notin inFiles
         THEN /\ Abort("Input not found: ", inPath)
              /\ UNCHANGED <<headers, heap>>
         ELSE IF headers = <<>> \/ objects = <<>>
           THEN /\ Abort("No data found (check file formatting).", "")
                /\ UNCHANGED <<headers, heap>>
         ELSE /\ pc' = "loop"
              /\ headers' = withRequired(headers, required)
              /\ heap' = [r \in 1..Len(heap) |->
                            defaultQuantity(addMissing(heap[r], headers, required))]
              /\ UNCHANGED procVars
    /\ UNCHANGED <<prog, FILL_BLANKS, MERGE_VALUES, i, hybridVars, index, jsVars,
                   p0Vars, objects, map, dupes, mergedCount, deduped, report>>
    /\ UNCHANGED mergedWith

\* the report entry of the group `key` after one more merge
trackDupe(ds, key, keptId, mergedId) ==
    LET known == \E j \in 1..Len(ds) : ds[j].key = key
        ds1   == IF known THEN ds
                 ELSE Append(ds, [key |-> key, kept_id |-> keptId, merged_ids |-> <<>>])
        at    == CHOOSE j \in 1..Len(ds1) : ds1[j].key = key
    IN  IF mergedId # <<>>
          THEN [ds1 EXCEPT ![at].merged_ids = Append(@, mergedId)]
          ELSE ds1

\* merge true duplicate: mr is the result of mergeRows(existing, o, headers)
Merge_d(o, key, existing, mr) ==
    /\ heap' = mr.heap
    /\ map' = MapSet(map, key, mr.ref)
    /\ mergedCount' = mergedCount + 1
    /\ dupes' = trackDupe(dupes, key,
                    IF Get(mr.heap[mr.ref], <<"id">>) # <<>>
                      THEN Get(mr.heap[mr.ref], <<"id">>)
                      ELSE Get(heap[existing], <<"id">>),
                    Get(heap[o], <<"id">>))

\* the body of the loop for the row o with the key `key`; existing is
\* map.get(key), 0 when the map has no such key
Keyed_d(o, key, existing) ==
    IF existing = 0
      THEN /\ map' = MapSet(map, key, o)
           /\ UNCHANGED <<heap, mergedCount, dupes>>
      ELSE Merge_d(o, key, existing,
                   mergeRows_d(heap, existing, o, headers, FILL_BLANKS, MERGE_VALUES))

Row_d(o, key) == Keyed_d(o, key, IF MapHas(map, key) THEN MapGet(map, key) ELSE 0)

\* one turn of the loop `for (const o of objects)`
Step_d ==
    /\ prog = "dedupe"
    /\ UNCHANGED <<normVars, queryVars, keys, sideVars>>
    /\ pc = "loop"
    /\ i <= Len(objects)
    /\ Row_d(objects[i], buildDedupeKey(heap[objects[i]]))
    /\ i' = i + 1
    /\ UNCHANGED <<prog, pc, FILL_BLANKS, MERGE_VALUES, hybridVars, index, jsVars,
                   p0Vars, headers, objects, deduped, report>>
    /\ UNCHANGED procVars
    /\ UNCHANGED mergedWith

\* Array.from(map.values()), the output files and the report
Report_d ==
    /\ prog = "dedupe"
    /\ UNCHANGED <<normVars, queryVars, keys, sideVars>>
    /\ pc = "loop"
    /\ i > Len(objects)
    /\ deduped' = [j \in 1..Len(map) |-> map[j][2]]
    /\ \E o \in WriteOutcomes :
          /\ WriteOutputs(o)
          /\ report' =
                IF o.n < Len(OutOrder) THEN report
                ELSE [NoReport EXCEPT
                  !.written = TRUE,
                  !.rows_in = Len(objects),
                  !.rows_out = Len(map),
                  !.merged_rows = mergedCount,
                  !.duplicate_groups = Len(dupes)]
    /\ UNCHANGED <<prog, FILL_BLANKS, MERGE_VALUES, heap, i, hybridVars, index,
                   jsVars, p0Vars, headers, objects, map, dupes, mergedCount>>
    /\ UNCHANGED mergedWith

Next ==
    \/ BuildIndex_js
    \/ ProcessOld_js
    \/ Report_js
    \/ BuildIndex_p0
    \/ ProcessOld_p0
    \/ Report_p0
    \/ Prepare_d
    \/ Step_d
    \/ Report_d

Spec == Init /\ [][Next]_vars

\* ------------------------------------------------------------------
\* main() of the inventory normalizer (part_003)
\* ------------------------------------------------------------------
\* the header line and the data lines of the input files
NormHeaderLine ==
    <<"i", "d", ",", "Y", "e", "a", "r", ",", "P", "l", "a", "y", "e", "r", ",", "C", "a", "r", "d", " ", "#", ",", "Q", "u", "a", "n", "t", "i", "t", "y", ",", "V", "a", "l", "u", "e", ",", "R", "o", "o", "k", "i", "e", ",", "I", "m", "a", "g", "e", ",", "I", "m", "a", "g", "e", "s", ",", "G", "r", "a", "d", "e">>

NormLinePool ==
    << <<"a", "1", ",", "2", "0", "2", "0", ",", "M", "e", "s", "s", "i", ",", "7", ",", "2", ",", "$", "3", ",", "Y", "e", "s", ",", "f", "r", "o", "n", "t", " ", "1", ".", "j", "p", "g", ",", ",", "P", "S", "A", " ", "9">>,
       <<",", "8", "5", ",", "\"", "S", "m", "i", "t", "h", ",", " ", "J", "r", ".", "\"", ",", "1", "2", ",", "-", "3", ",", "a", "b", "c", ",", "n", ",", ",", "f", ".", "j", "p", "g", " ", "|", " ", "b", ".", "j", "p", "g", ",">>,
       <<",", "1", "9", "8", "5", "-", "8", "6", ",", "M", "e", "s", "s", "i", ",", "7", ",", "1", "0", "0", "0", "0", "0", "0", "0", "0", "0", "0", "0", "0", "0", "0", "0", "0", "0", "0", "0", "0", "0", ",", "1", ".", "5", "0", ",", ",", "h", "t", "t", "p", ":", "/", "/", "h", "/", "x", ".", "p", "n", "g", ",", ",">>,
       <<"a", "1", ",", ",", "M", "e", "s", "s", "i", ",", "7", ",", ",", ",", ",", ",", ",">>,
       <<",", ",", ",", ",", "x", ",", ",", "m", "a", "y", "b", "e", ",", ",", ",">>,
       <<",", "2", "0", "2", "0", ",", "m", "e", "s", "s", "i", " ", ",", "7", ",", "2", ".", "5", ",", ",", ",", ",", ",">>,
       <<",", "2", "0", "2", "0", ",", "M", "e", "s", "s", "i", ",", "7", ",", ",", "4", ",", ",", ",", ",">>,
       <<",", "2", "0", "2", "0", ",", "\"", "S", "m", "i", "t", "h", "\n", "J", "r", ".", "\"", ",", "9", ",", "1", ",", ",", ",", ",", ",">> >>

\* new Date().toISOString(), each of them one symbol of the model's alphabet
NowPool == {<<"2026-01-01T00:00:00.000Z">>, <<"2026-01-02T00:00:00.000Z">>}

\* small files delimited by semicolons, pipes and tabs, and one whose header
\* line holds as many commas as pipes
DelimFilePool ==
    {<<"i", "d", ";", "Y", "e", "a", "r", ";", "P", "l", "a", "y", "e", "r", "\n", ";", "2", "0", "2", "0", ";", "M", "e", "s", "s", "i", "\n">>,
     <<"i", "d", "|", "Y", "e", "a", "r", "|", "P", "l", "a", "y", "e", "r", "\n", "|", "2", "0", "2", "0", "|", "M", "e", "s", "s", "i", "\n">>,
     <<"i", "d", "\t", "Y", "e", "a", "r", "\t", "P", "l", "a", "y", "e", "r", "\n", "\t", "2", "0", "2", "0", "\t", "M", "e", "s", "s", "i", "\n">>,
     <<"i", "d", ",", "Y", "e", "a", "r", "|", "P", "l", "a", "y", "e", "r", "\n", ",", "2", "0", "2", "0", "|", "M", "e", "s", "s", "i", "\n">>}

\* files with two columns for the year and two for the value
DupColumnFilePool ==
    {<<"S", "e", "a", "s", "o", "n", ",", "Y", "e", "a", "r", ",", "P", "l", "a", "y", "e", "r", ",", "P", "r", "i", "c", "e", ",", "V", "a", "l", "u", "e", "\n", "2", "0", "2", "1", "-", "2", "2", ",", "2", "0", "2", "0", ",", "M", "e", "s", "s", "i", ",", "5", ",", "7", "\n">>,
     <<"S", "e", "a", "s", "o", "n", ",", "Y", "e", "a", "r", ",", "P", "l", "a", "y", "e", "r", ",", "P", "r", "i", "c", "e", ",", "V", "a", "l", "u", "e", "\n", "2", "0", "2", "1", "-", "2", "2", ",", ",", "M", "e", "s", "s", "i", ",", "5", ",", "\n">>,
     <<"Y", "e", "a", "r", ",", "S", "e", "a", "s", "o", "n", ",", "P", "l", "a", "y", "e", "r", ",", "V", "a", "l", "u", "e", ",", "P", "r", "i", "c", "e", "\n", "2", "0", "2", "0", ",", "1", "9", "9", "9", "-", "0", "0", ",", "M", "e", "s", "s", "i", ",", ",", "9", "\n">>}

\* the input files: no file, an empty file, the header line followed by
\* lines of the pool, and the files of DelimFilePool and DupColumnFilePool
InitNorm ==
    /\ prog = "normalize"
    /\ pc = "read"
    /\ argv = <<>>
    /\ inFiles \in SUBSET {"input"}
    /\ FILL_BLANKS = FALSE
    /\ MERGE_VALUES = StrKeepOld
    /\ query = NoQuery
    /\ IF inFiles = {}
         THEN raw = <<>>
         ELSE \/ raw = <<>>
              \/ \E ls \in SubSeqsUpTo(NormLinePool, MaxRows) :
                    raw = Join(<<NormHeaderLine>> \o ls, <<"\n">>) \o <<"\n">>
              \/ raw \in DelimFilePool
              \/ raw \in DupColumnFilePool
    /\ heap = <<>>
    /\ oldRows = <<>>
    /\ newRows = <<>>
    /\ oldHeaders = <<>>
    /\ newHeaders = <<>>
    /\ headers = <<>>
    /\ objects = <<>>
    /\ InitCommon

restVars ==
    <<prog, argv, inFiles, raw, FILL_BLANKS, MERGE_VALUES, heap, hybridVars, index,
      jsVars, p0Vars, headers, objects, map, dupes, mergedCount, report, mergedWith,
      queryVars, keys, sideVars>>

\* chooseBestInventoryFile, readText and the parsing of the lines
Read_n ==
    /\ prog = "normalize"
    /\ pc = "read"
    /\ IF "input" \notin inFiles
         THEN Abort("No input inventory file found.", "") /\ parsedRows' = parsedRows
         ELSE IF linesOf(raw) = <<>>
           THEN Abort("Input file is empty.", "") /\ parsedRows' = parsedRows
         ELSE /\ parsedRows' = parseRows(linesOf(raw))
              /\ pc' = "normalize"
              /\ UNCHANGED <<outFiles, exit, stderr>>
    /\ UNCHANGED <<i, normalized, deduped, canonical>>
    /\ UNCHANGED restVars

\* one call of the callback of parsedRows.map
NormalizeRow_n ==
    /\ prog = "normalize"
    /\ pc = "normalize"
    /\ i <= Len(parsedRows)
    /\ \E now \in NowPool :
          normalized' = Append(normalized, normalizeRow(parsedRows[i], i, now))
    /\ i' = i + 1
    /\ UNCHANGED <<pc, outFiles, exit, stderr, parsedRows, deduped, canonical>>
    /\ UNCHANGED restVars

\* the output files in the order main() writes them
NormOutOrder == <<"tsv", "csv">>

NormWriteOutcomes ==
    {[n |-> Len(NormOutOrder), left |-> "written"]}
      \cup {[n |-> k, left |-> l] : k \in 0..(Len(NormOutOrder) - 1),
                                     l \in {"before", "truncated"}}

filesAfter_n(files, o) ==
    [f \in OutNames |->
        IF IndexOf(NormOutOrder, f) = 0 THEN files[f]
        ELSE IF IndexOf(NormOutOrder, f) <= o.n THEN "written"
        ELSE IF IndexOf(NormOutOrder, f) = o.n + 1 /\ o.left # "before" THEN o.left
        ELSE files[f]]

\* dedupeById and the two writes; an exception of a write is caught at the
\* top level, which prints it and exits with 1
Write_n ==
    /\ prog = "normalize"
    /\ pc = "normalize"
    /\ i > Len(parsedRows)
    /\ deduped' = dedupeById(normalized)
    /\ \E o \in NormWriteOutcomes :
          /\ outFiles' = filesAfter_n(outFiles, o)
          /\ IF o.n = Len(NormOutOrder)
               THEN /\ pc' = "done"
                    /\ exit' = Exited(0)
                    /\ stderr' = stderr
                    /\ canonical' = toDelimited(dedupeById(normalized), ",")
               ELSE /\ pc' = "exit1"
                    /\ exit' = Exited(1)
                    /\ stderr' = Append(stderr, [text |-> "Normalize failed: ",
                                                  path |-> NormOutOrder[o.n + 1]])
                    /\ canonical' = canonical
    /\ UNCHANGED <<i, parsedRows, normalized>>
    /\ UNCHANGED restVars

NextNorm ==
    \/ Read_n
    \/ NormalizeRow_n
    \/ Write_n

NormSpec == InitNorm /\ [][NextNorm]_vars

\* ------------------------------------------------------------------
\* The sorter of the card browser (src/src/lib/query.ts)
\* ------------------------------------------------------------------
\* Number((v ?? "").toString().replace(/[^0-9.\-]/g, "")), null when that is
\* not finite; an absent column is the empty cell
money(v) == NumberOf(KeepNumeric(v))

\* the -1 of the value sort, in hundredths
MissingValue == -100

\* the -1e18 of the gain sort: below the gain of every two cells of the pool
NoGain == -1000000000

\* x ?? fallback
OrNumber(x, fallback) == IF x.ok THEN x.v ELSE fallback

Sign(x) == IF x < 0 THEN -1 ELSE IF x > 0 THEN 1 ELSE 0

\* am != null && al != null ? am - al : -1e18
gainOf(m, l) == IF m.ok /\ l.ok THEN m.v - l.v ELSE NoGain

\* the calls of money() the comparator of buildSorter(sort, dir) makes for
\* the cards a and b, in the order it makes them
moneyCalls(sort, a, b) ==
    IF sort = "value" THEN <<money(a.market), money(b.market)>>
    ELSE IF sort = "gain"
      THEN <<money(a.market), money(a.lastSold), money(b.market), money(b.lastSold)>>
    ELSE <<>>

\* the sign of buildSorter(sort, dir)(a, b)
buildSorter(sort, dir, a, b) ==
    LET mul == IF dir = "asc" THEN 1 ELSE -1
        m   == moneyCalls(sort, a, b)
    IN  IF sort = "value"
          THEN Sign(mul * (OrNumber(m[1], MissingValue) - OrNumber(m[2], MissingValue)))
        ELSE IF sort = "gain"
          THEN Sign(mul * (gainOf(m[1], m[2]) - gainOf(m[3], m[4])))
        ELSE 0

\* the cells of the columns "Market Avg (eBay 90d USD)" and "Last Sold Raw (USD)"
MarketCellPool ==
    {<<>>,
     <<" ">>,
     <<"0">>,
     <<"$", "0", ".", "0", "0">>,
     <<"$", "1", "2", ".", "5", "0">>,
     <<"N", "/", "A">>,
     <<"3">>,
     <<".", ".">>}

LastSoldCellPool ==
    {<<>>,
     <<"$", "3">>,
     <<"a", "b", "c">>,
     <<"1", "2", ".", "5">>}

CardPool == [market : MarketCellPool, lastSold : LastSoldCellPool]

InitQuery ==
    /\ prog = "query"
    /\ pc = "sort"
    /\ argv = <<>>
    /\ inFiles = {}
    /\ FILL_BLANKS = FALSE
    /\ MERGE_VALUES = StrKeepOld
    /\ query \in [sort : {"value", "gain"}, dir : {"asc", "desc"}, a : CardPool, b : CardPool]
    /\ raw = <<>>
    /\ heap = <<>>
    /\ oldRows = <<>>
    /\ newRows = <<>>
    /\ oldHeaders = <<>>
    /\ newHeaders = <<>>
    /\ headers = <<>>
    /\ objects = <<>>
    /\ InitCommon

\* one call of the comparator
Compare_q ==
    /\ prog = "query"
    /\ pc = "sort"
    /\ amounts' = moneyCalls(query.sort, query.a, query.b)
    /\ compared' = buildSorter(query.sort, query.dir, query.a, query.b)
    /\ pc' = "done"
    /\ UNCHANGED <<prog, query, procVars, normVars, FILL_BLANKS, MERGE_VALUES, heap, i,
                   hybridVars, index, jsVars, p0Vars, dedupeVars, report, mergedWith,
                   keys, sideVars>>

NextQuery == Compare_q

QuerySpec == InitQuery /\ [][NextQuery]_vars

\* ------------------------------------------------------------------
\* The keys of two records
\* ------------------------------------------------------------------
\* the player and set cells of the records
KeyPlayerPool ==
    {<<"J", "o", "s", "é", " ", "R", "u", "i", "z">>,
     <<"j", "o", "s", "e", " ", " ", "r", "u", "i", "z", " ">>,
     <<"O", "'", "N", "e", "a", "l">>,
     <<"O", "N", "e", "a", "l">>,
     <<"M", "e", "s", "s", "i">>}

KeySetPool ==
    {<<"T", "o", "p", "p", "s", " ", "C", "h", "r", "o", "m", "e">>,
     <<" ", "t", "o", "p", "p", "s", " ", " ", "c", "h", "r", "o", "m", "e">>,
     <<"T", "o", "p", "p", "s", " ", "C", "h", "r", "o", "m", "e", "!">>,
     <<"P", "a", "n", "i", "n", "i">>}

\* a record of the normalized schema, its columns in one of two orders
KeyRecord(player, set, swapped) ==
    IF swapped
      THEN << <<<<"year">>, <<"2", "0", "2", "0">>>>, <<<<"card_number">>, <<"7">>>>,
              <<<<"set">>, set>>, <<<<"player">>, player>> >>
      ELSE << <<<<"player">>, player>>, <<<<"set">>, set>>,
              <<<<"card_number">>, <<"7">>>>, <<<<"year">>, <<"2", "0", "2", "0">>>> >>

\* a largely blank record: a player, a title and an image, and no set, card
\* number or year
WeakRecord(title, image) ==
    << <<<<"player">>, Messi>>, <<<<"set">>, <<>>>>, <<<<"card_number">>, <<>>>>,
       <<<<"year">>, <<>>>>, <<<<"Title">>, title>>, <<<<"image">>, image>> >>

WeakRecordPool ==
    {WeakRecord(ti, im) :
        ti \in {<<"M", "e", "s", "s", "i", " ", "R", "C">>, <<"M", "e", "s", "s", "i", " ", "b", "a", "s", "e">>},
        im \in {<<"h", "t", "t", "p", ":", "/", "/", "h", "/", "a", ".", "j", "p", "g">>, <<"h", "t", "t", "p", ":", "/", "/", "h", "/", "b", ".", "j", "p", "g">>}}

KeyRecordPool ==
    {KeyRecord(p, s, w) : p \in KeyPlayerPool, s \in KeySetPool, w \in BOOLEAN}
      \cup WeakRecordPool

\* titles of the form '<year or season> <set words> #<number> <player>'
TitleForms ==
    {[lead |-> <<"2", "0", "2", "3", "-", "2", "4">>, year |-> <<"2", "0", "2", "3">>, set |-> <<"P", "a", "n", "i", "n", "i", " ", "P", "r", "i", "z", "m">>, no |-> <<"2", "2", "1">>, player |-> <<"H", "a", "a", "l", "a", "n", "d">>],
     [lead |-> <<"2", "0", "2", "3">>, year |-> <<"2", "0", "2", "3">>, set |-> <<"T", "o", "p", "p", "s">>, no |-> <<"7">>, player |-> <<"M", "e", "s", "s", "i">>],
     [lead |-> <<"1", "9", "9", "8", "/", "9", "9">>, year |-> <<"1", "9", "9", "8">>, set |-> <<"U", "p", "p", "e", "r", " ", "D", "e", "c", "k">>, no |-> <<"A", "1">>, player |-> <<"Z", "i", "d", "a", "n", "e">>]}

TitleOf(f) == f.lead \o <<" ">> \o f.set \o <<" ", "#">> \o f.no \o <<" ">> \o f.player

\* the titles of the rows of the old file
KeyTitlePool ==
    {TitleOf(f) : f \in TitleForms}
      \cup {<<"T", "o", "p", "p", "s", " ", "F", "I", "F", "A", " ", "1", "0", " ", "P", "e", "l", "e">>,
            <<>>}

\* a cell of a column the file may lack
Absent == <<"(absent)">>

\* a row of the old file: the columns Title, Player, Set and Card Number, and
\* the columns Season and Year when the file has them
OldRecord(title, player, set, card, season, year) ==
    << <<<<"Title">>, title>>, <<<<"Player">>, player>>, <<<<"Set">>, set>>,
       <<<<"Card Number">>, card>> >>
      \o (IF season = Absent THEN <<>> ELSE << <<<<"Season">>, season>> >>)
      \o (IF year = Absent THEN <<>> ELSE << <<<<"Year">>, year>> >>)

OldRecordPool ==
    {OldRecord(ti, <<"H", "a", "a", "l", "a", "n", "d">>, s, c, se, y) :
        ti \in KeyTitlePool,
        s \in {<<>>, <<"T", "o", "p", "p", "s", " ", "C", "h", "r", "o", "m", "e">>},
        c \in {<<>>, <<"7">>},
        se \in {Absent, <<>>, <<"2", "0", "2", "1", "-", "2", "2">>},
        y \in {Absent, <<>>, <<"2", "0", "2", "0">>}}

InitKeys ==
    /\ prog = "keys"
    /\ pc = "key"
    /\ argv = <<>>
    /\ inFiles = {}
    /\ FILL_BLANKS = FALSE
    /\ MERGE_VALUES = StrKeepOld
    /\ query = NoQuery
    /\ raw = <<>>
    /\ \/ \E a \in KeyRecordPool, b \in KeyRecordPool : heap = <<a, b>>
       \/ \E o \in OldRecordPool : heap = <<o>>
    /\ oldRows = <<>>
    /\ newRows = <<>>
    /\ oldHeaders = <<>>
    /\ newHeaders = <<>>
    /\ headers = <<>>
    /\ objects = <<>>
    /\ InitCommon

keyRest ==
    <<prog, pc, procVars, normVars, queryVars, FILL_BLANKS, MERGE_VALUES, heap, i,
      hybridVars, index, jsVars, p0Vars, dedupeVars, report, mergedWith, sideVars>>

\* keyFromNew of the hybrid merge for each record
IdentityKey_k ==
    /\ prog = "keys"
    /\ keys.identity = <<>>
    /\ keys' = [keys EXCEPT !.identity = [j \in 1..Len(heap) |-> keyFromNew(heap[j])]]
    /\ UNCHANGED keyRest

\* buildDedupeKey of the dedupe for each record
StrictKey_k ==
    /\ prog = "keys"
    /\ keys.strict = <<>>
    /\ keys' = [keys EXCEPT !.strict = [j \in 1..Len(heap) |-> buildDedupeKey(heap[j])]]
    /\ UNCHANGED keyRest

\* keyFromOld of the hybrid merge for each record
OldKey_k ==
    /\ prog = "keys"
    /\ keys.old = <<>>
    /\ keys' = [keys EXCEPT !.old = [j \in 1..Len(heap) |-> keyFromOld(heap[j])]]
    /\ UNCHANGED keyRest

NextKeys ==
    \/ IdentityKey_k
    \/ StrictKey_k
    \/ OldKey_k

KeySpec == InitKeys /\ [][NextKeys]_vars

\* ------------------------------------------------------------------
\* Quantity conservation of the dedupe
\* ------------------------------------------------------------------
\* the rows of the dedupe input whose Strict Duplicate Key is key, in input order
groupRows(key) == SelectSeq(objects, LAMBDA r : buildDedupeKey(heap[r]) = key)

\* the text is an integer: an optional minus sign, then decimal digits only
IsIntegerText(q) ==
    LET s     == Trim(q)
        first == IF s # <<>> /\ s[1] = "-" THEN 2 ELSE 1
    IN  first <= Len(s) /\ DigitRunEnd(s, first) = Len(s) + 1

\* the sum of the quantities of the rows, each read as the integer it denotes
RECURSIVE sumRead(_)
sumRead(rows) ==
    IF rows = <<>> THEN 0
    ELSE toInt(Get(heap[Head(rows)], <<"quantity">>), 1) + sumRead(Tail(rows))

\* the sum of the quantities of the rows, a blank or unparsable quantity
\* counted as 1 and a negative one as 0
RECURSIVE sumCounted(_)
sumCounted(rows) ==
    IF rows = <<>> THEN 0
    ELSE Max0(toInt(Get(heap[Head(rows)], <<"quantity">>), 1)) + sumCounted(Tail(rows))

dedupeDone == prog = "dedupe" /\ pc = "done"

\* C1 as stated: when the dedupe is done, the quantity of the output row of
\* every group of rows with the same Strict Duplicate Key is the sum of the
\* quantities of the rows of the group (a blank one counts as 1, which is what
\* the input rows hold once main() has set the default).
C1_QuantityIsSumOfGroup ==
    dedupeDone =>
        \A m \in 1..Len(map) :
            (\A j \in 1..Len(groupRows(map[m][1])) :
                 IsIntegerText(Get(heap[groupRows(map[m][1])[j]], <<"quantity">>)))
            => Get(heap[deduped[m]], <<"quantity">>)
                   = IntToString(sumRead(groupRows(map[m][1])))

\* C1, amended: the output row of a group of two or more rows holds the sum
\* of the quantities of the rows, a blank or unparsable quantity counted as 1
\* and a negative one as 0; the row of a group of one keeps its quantity.
C1_QuantityIsCountedSum ==
    dedupeDone =>
        /\ Len(deduped) = Len(map)
        /\ \A m \in 1..Len(map) :
              IF Len(groupRows(map[m][1])) >= 2
                THEN Get(heap[deduped[m]], <<"quantity">>)
                         = IntToString(sumCounted(groupRows(map[m][1])))
                ELSE /\ Len(groupRows(map[m][1])) = 1
                     /\ Get(heap[deduped[m]], <<"quantity">>)
                            = Get(heap[groupRows(map[m][1])[1]], <<"quantity">>)

\* a group of three rows, one of them with a blank quantity, merged into a
\* row with the quantity 4
C1_GroupOfThreeSummed ==
    /\ dedupeDone
    /\ \E m \in 1..Len(map) :
          /\ Len(groupRows(map[m][1])) = 3
          /\ Get(heap[deduped[m]], <<"quantity">>) = <<"4">>

\* ------------------------------------------------------------------
\* The loop of the hybrid merge, one authoritative row at a time
\* ------------------------------------------------------------------
hybrid == prog \in {"merge_hybrid", "part_000"}

\* the step that processes the authoritative row oldRows[i]
processing == hybrid /\ pc = "loop" /\ i <= Len(oldRows) /\ i' = i + 1

theKey ==
    IF prog = "merge_hybrid" THEN keyFromOld(heap[oldRows[i]])
    ELSE keyFromOld_p0(heap[oldRows[i]])

theCandidates == candidatesOf(index, theKey)

\* the score of the row against the candidate c, in half points
scoreOf(c) ==
    IF prog = "merge_hybrid" THEN scoreMatch2(heap[oldRows[i]], heap[c])
    ELSE 2 * scoreMatch_p0(heap[oldRows[i]], heap[c])

\* the place of a top-scoring candidate among the candidates
topAt ==
    CHOOSE a \in 1..Len(theCandidates) :
        \A b \in 1..Len(theCandidates) : scoreOf(theCandidates[b]) <= scoreOf(theCandidates[a])

topScore == scoreOf(theCandidates[topAt])

\* the best score among the other candidates
runnerUp ==
    LET others == (1..Len(theCandidates)) \ {topAt}
        at     == CHOOSE a \in others :
                      \A b \in others : scoreOf(theCandidates[b]) <= scoreOf(theCandidates[a])
    IN  scoreOf(theCandidates[at])

\* the row the step emits
emitted == heap'[IF prog = "merge_hybrid" THEN matched'[i] ELSE merged'[i]]

\* the classes the step counts the row in
countedUnmatched ==
    IF prog = "merge_hybrid" THEN Len(unmatchedOld') = Len(unmatchedOld) + 1
    ELSE counts'.unmatched = counts.unmatched + 1

countedAmbiguous ==
    IF prog = "merge_hybrid" THEN Len(ambiguous') = Len(ambiguous) + 1
    ELSE counts'.ambiguous = counts.ambiguous + 1

countedMatched ==
    IF prog = "merge_hybrid"
      THEN Len(matched') - Len(unmatchedOld') - Len(ambiguous')
             = Len(matched) - Len(unmatchedOld) - Len(ambiguous) + 1
      ELSE counts'.matched = counts.matched + 1

classifiedMatched == countedMatched /\ ~countedUnmatched /\ ~countedAmbiguous

classifiedUnmatched == countedUnmatched /\ ~countedMatched /\ ~countedAmbiguous

classifiedAmbiguous == countedAmbiguous /\ ~countedMatched /\ ~countedUnmatched

\* the row is emitted as the merge of itself with the candidate c
mergedInto(c) ==
    /\ mergedWith'[i] = c
    /\ emitted = IF prog = "merge_hybrid"
                   THEN mergeEntries(heap[oldRows[i]], heap[c], FILL_BLANKS)
                   ELSE fillOrKeepEntries(heap[oldRows[i]], heap[c], FILL_BLANKS)

\* the row is emitted with exactly its fields and values
emittedUnchanged == mergedWith'[i] = 0 /\ emitted = heap[oldRows[i]]

\* C2 as stated: a row with two or more candidates is merged with the top
\* scoring candidate only when the top score is at least the floor and
\* exceeds the runner-up by at least the gap; in every other case it is
\* classified ambiguous and emitted unchanged.
C2_FloorAndGap ==
    [][(processing /\ Len(theCandidates) >= 2) =>
          IF topScore >= 2 * ScoreFloor /\ topScore - runnerUp >= 2 * ScoreGap
            THEN classifiedMatched /\ mergedInto(theCandidates[topAt])
            ELSE classifiedAmbiguous /\ emittedUnchanged]_vars

\* C3 as stated: a row with exactly one candidate is merged with it only if
\* its score meets the floor; below the floor it is classified unmatched and
\* emitted unchanged.
C3_SingleCandidateScored ==
    [][(processing /\ Len(theCandidates) = 1) =>
          IF scoreOf(theCandidates[1]) >= 2 * ScoreFloor
            THEN classifiedMatched /\ mergedInto(theCandidates[1])
            ELSE classifiedUnmatched /\ emittedUnchanged]_vars

hybridDone == hybrid /\ pc = "done"

\* C4 as stated: at the end of a run of the hybrid merge the reported counts
\* are not negative and matched + unmatched + ambiguous = the number of
\* authoritative rows = output_rows.
C4_CountsPartitionRows ==
    hybridDone =>
        /\ report.matched >= 0 /\ report.unmatched >= 0 /\ report.ambiguous >= 0
        /\ report.matched + report.unmatched + report.ambiguous = Len(oldRows)
        /\ report.output_rows = Len(oldRows)

\* ------------------------------------------------------------------
\* Use of the reference records
\* ------------------------------------------------------------------
\* the normalized rows that were merged into some authoritative row
consumed == {mergedWith[j] : j \in 1..Len(mergedWith)} \ {0}

\* the run holds the normalized row n for used
markedUsed(n) ==
    IF prog = "merge_hybrid" THEN keyFromNew(heap[n]) \in usedNewKeys
    ELSE Get(heap[n], <<"id">>) # <<>> /\ Get(heap[n], <<"id">>) \in usedNewIds

\* C5 as stated: a reference record is marked used only if it was merged
\* into a row, and at the end of the run every reference record that was
\* never merged is counted as unused: the reported count is their number.
C5_UnusedAreTheNeverMerged ==
    hybridDone =>
        /\ \A j \in 1..Len(newRows) : markedUsed(newRows[j]) => newRows[j] \in consumed
        /\ report.unused_normalized_count_estimate
               = Cardinality({j \in 1..Len(newRows) : newRows[j] \notin consumed})

\* ------------------------------------------------------------------
\* The output of the hybrid merge
\* ------------------------------------------------------------------
\* the rows emitted so far, after the step
outputAfter == IF prog = "merge_hybrid" THEN matched' ELSE merged'

outputBefore == IF prog = "merge_hybrid" THEN matched ELSE merged

\* a shadow column norm_<field>
IsShadow(k) == k # <<>> /\ k[1] = "norm_"

\* the emitted row is the authoritative row: it has every column of it, in
\* the same order, and the value of each one that is not blank
emittedFromOld ==
    /\ Len(emitted) >= Len(heap[oldRows[i]])
    /\ \A c \in 1..Len(heap[oldRows[i]]) :
          /\ emitted[c][1] = heap[oldRows[i]][c][1]
          /\ (~IsBlank(heap[oldRows[i]][c][2]) /\ ~IsShadow(emitted[c][1]))
                => emitted[c][2] = heap[oldRows[i]][c][2]

\* C6 as stated: the output is the authoritative rows in their input order,
\* one output row per authoritative row; a row with no candidate or counted
\* ambiguous is emitted with exactly its fields and values; the output has
\* no other row.
C6_OutputIsOldRowsInOrder ==
    [][/\ processing =>
            /\ Len(outputAfter) = i
            /\ SubSeq(outputAfter, 1, i - 1) = outputBefore
            /\ emittedFromOld
            /\ (theCandidates = <<>> \/ countedAmbiguous) => emittedUnchanged
       /\ (hybrid /\ pc = "loop" /\ pc' = "done") =>
            /\ Len(outputBefore) = Len(oldRows)
            /\ report'.output_rows = Len(oldRows)]_vars

\* ------------------------------------------------------------------
\* The merge of two records, in the three programs
\* ------------------------------------------------------------------
dedupeMerging ==
    /\ prog = "dedupe" /\ pc = "loop" /\ i <= Len(objects) /\ i' = i + 1
    /\ MapHas(map, buildDedupeKey(heap[objects[i]]))

hybridMerging == processing /\ mergedWith'[i] # 0

\* the step merges two records
merging == hybridMerging \/ dedupeMerging

\* the old record, the new record and the merged record of the step
mergeOld ==
    IF hybrid THEN heap[oldRows[i]]
    ELSE heap[MapGet(map, buildDedupeKey(heap[objects[i]]))]

mergeNew == IF hybrid THEN heap[mergedWith'[i]] ELSE heap[objects[i]]

\* the reference of the merged record
mergeRef ==
    IF prog = "merge_hybrid" THEN matched'[i]
    ELSE IF prog = "part_000" THEN merged'[i]
    ELSE MapGet(map', buildDedupeKey(heap[objects[i]]))

mergeOut == heap'[mergeRef]

\* the columns the dedupe merge computes from both records
IsAggregated(k) ==
    \/ k \in {<<"quantity">>, <<"notes">>, <<"timestamp">>}
    \/ MERGE_VALUES # StrKeepOld
         /\ \E f \in 1..Len(NumericFieldNames) : NumericFieldNames[f] = k

\* C7 as stated: every column of the old record keeps the old value in the
\* merged record when that value is not blank, and with blank-filling off
\* it keeps the old value also when it is blank.
oldValuesKept(old, out) ==
    \A c \in 1..Len(old) :
        (~IsBlank(old[c][2]) \/ ~FILL_BLANKS) => Get(out, old[c][1]) = old[c][2]

oldPrimaryValuesKept(old, out) ==
    \A c \in 1..Len(old) :
        /\ (~IsBlank(old[c][2])
              /\ (IF hybrid THEN ~IsShadow(old[c][1]) ELSE ~IsAggregated(old[c][1])))
             => Get(out, old[c][1]) = old[c][2]
        /\ (IsBlank(old[c][2]) /\ ~FILL_BLANKS
              /\ (IF hybrid THEN ~IsShadow(old[c][1])
                  ELSE ~IsAggregated(old[c][1]) /\ old[c][1] # <<"id">>))
             => Get(out, old[c][1]) = old[c][2]

outputRows == IF prog = "merge_hybrid" THEN matched ELSE merged

blanksFilled(old, new, out) ==
    \A c \in 1..Len(old) :
        (Has(new, old[c][1]) /\ IsBlank(old[c][2]) /\ ~IsBlank(Get(new, old[c][1])))
           => Get(out, old[c][1]) = Get(new, old[c][1])

C8_BlankFilledFromNew ==
    [][(merging /\ FILL_BLANKS) =>
          \A old \in {mergeOld}, new \in {mergeNew}, out \in {mergeOut} :
              blanksFilled(old, new, out)]_vars

\* the value v of the column k is in the record out under norm_<k>
shadowed(out, k, v) == Has(out, <<"norm_">> \o k) /\ Get(out, <<"norm_">> \o k) = v

\* C9 as stated: in every merge, of a field that both records define with
\* different values, the value that does not win the primary field is in
\* the merged record under norm_<field>.
loserShadowed(old, new, out) ==
    \A c \in 1..Len(old) :
        (Has(new, old[c][1]) /\ Get(new, old[c][1]) # old[c][2])
           => /\ Get(out, old[c][1]) # old[c][2] => shadowed(out, old[c][1], old[c][2])
              /\ Get(out, old[c][1]) # Get(new, old[c][1])
                   => shadowed(out, old[c][1], Get(new, old[c][1]))

newValueShadowed(old, new, out) ==
    \A c \in 1..Len(old) :
        (/\ Has(new, old[c][1])
         /\ ~Has(old, <<"norm_">> \o old[c][1])
         /\ ~Has(new, <<"norm_">> \o old[c][1])
         /\ ~IsBlank(Get(new, old[c][1])))
           => shadowed(out, old[c][1], Get(new, old[c][1]))

C10_MergeLeavesInputs ==
    [][(pc = "loop" /\ i' = i + 1) =>
          /\ Len(heap') >= Len(heap)
          /\ \A r \in 1..Len(heap) : heap'[r] = heap[r]
          /\ merging => mergeRef \notin 1..Len(heap)]_vars

\* a run of the first hybrid merge that merged a normalized row into an
\* authoritative row: the output row is a third record
C10_MergedIsFresh ==
    /\ prog = "merge_hybrid" /\ pc = "done"
    /\ \E j \in 1..Len(oldRows) :
          /\ mergedWith[j] # 0
          /\ outputRows[j] \notin {oldRows[j], mergedWith[j]}
          /\ heap[outputRows[j]] # heap[oldRows[j]]


\* ------------------------------------------------------------------
\* The merge-values strategy of the dedupe merge
\* ------------------------------------------------------------------
\* the cell is a decimal literal, with an optional "$" before it
DenotesNumber(cell) ==
    LET s == Trim(cell)
        t == IF s # <<>> /\ s[1] = "$" THEN Tail(s) ELSE s
    IN  t # <<>> /\ NumberOf(t).ok

\* the number a cell that denotes one stands for, in hundredths
numberIn(cell) ==
    LET s == Trim(cell)
    IN  NumberOf(IF s[1] = "$" THEN Tail(s) ELSE s).v

ValueFields == {<<"value">>, <<"purchase_price">>}

\* the record of old and new with the strictly more recent timestamp, as a
\* sequence: empty when neither is more recent
moreRecent(old, new) ==
    LET ta == DateParse(Get(old, <<"timestamp">>))
        tb == DateParse(Get(new, <<"timestamp">>))
    IN  IF ta > tb THEN <<old>> ELSE IF tb > ta THEN <<new>> ELSE <<>>

strategyFollowed(old, new, out, f) ==
    LET a == Get(old, f)
        b == Get(new, f)
        c == Get(out, f)
    IN  /\ MERGE_VALUES = StrKeepOld =>
              ((~IsBlank(a) \/ ~FILL_BLANKS) => c = a)
        /\ (DenotesNumber(a) /\ DenotesNumber(b)) =>
              /\ MERGE_VALUES = StrMax =>
                    /\ DenotesNumber(c)
                    /\ numberIn(c) = IF numberIn(a) >= numberIn(b)
                                       THEN numberIn(a) ELSE numberIn(b)
              /\ MERGE_VALUES = StrMin =>
                    /\ DenotesNumber(c)
                    /\ numberIn(c) = IF numberIn(a) <= numberIn(b)
                                       THEN numberIn(a) ELSE numberIn(b)
              /\ MERGE_VALUES = StrNewest =>
                    \A r \in {moreRecent(old, new)} :
                        r # <<>> =>
                          /\ DenotesNumber(c)
                          /\ numberIn(c) = numberIn(Get(r[1], f))

C12_EqualsFormSelectsMax ==
    (prog = "dedupe" /\ hasFlag(argv, FlagMergeValues \o <<"=">> \o StrMax))
        => MERGE_VALUES = StrMax

\* ------------------------------------------------------------------
\* Missing inputs, failed writes and the exit code
\* ------------------------------------------------------------------
RequiredInputs == IF prog = "dedupe" THEN {"in"} ELSE {"old", "new"}

PathOf(name) ==
    IF name = "old" THEN OLD_PATH ELSE IF name = "new" THEN NEW_PATH ELSE inPath

inputMissing == ~(RequiredInputs \subseteq inFiles)

noOutputTouched == (\A f \in OutNames : outFiles[f] = "before") /\ ~report.written

\* C13: with a required input file missing the run reads no row and writes
\* no output file, and when it has ended its exit code is 1 and the one
\* message on stderr names the path of a missing file.
C13_MissingInputAborts ==
    inputMissing =>
        /\ pc \in {"index", "prepare", "exit1"}
        /\ noOutputTouched
        /\ exit.done =>
              /\ exit.code = 1
              /\ Len(stderr) = 1
              /\ \E name \in RequiredInputs \ inFiles : stderr[1].path = PathOf(name)

\* merge_hybrid has ended on the missing normalized file
C13_AbortedOnMissingNew ==
    /\ prog = "merge_hybrid"
    /\ inFiles = {"old"}
    /\ exit = Exited(1)
    /\ stderr = <<[text |-> "File not found: ", path |-> NEW_PATH]>>

\* a write at the end of main() has thrown
writeFailed == \E j \in 1..Len(stderr) : stderr[j].text = "write failed: "

\* C14: when a run has failed, every output file holds what it held before
\* the run.
C14_FailedRunLeavesOutputs ==
    (exit.done /\ exit.code # 0) => \A f \in OutNames : outFiles[f] = "before"

\* C15: a run whose required input files all exist, and whose writes all
\* return, ends with the exit code 0, whatever the files hold.
C15_ExitZeroWhenInputsExist ==
    (exit.done /\ ~inputMissing /\ ~writeFailed) => exit.code = 0

\* ------------------------------------------------------------------
\* The normalizer: idempotence, quantity and year
\* ------------------------------------------------------------------
normalizerDone == prog = "normalize" /\ pc = "done"

\* C16: the normalizer, run on the CSV file it wrote, gives the rows it gave
\* the first time: the same rows in the same order, with the same value in
\* every canonical column.
C16_RerunGivesSameRows ==
    normalizerDone => \A now \in NowPool : rerun(canonical, now) = deduped

\* the step normalizes one row
normalizing == prog = "normalize" /\ pc = "normalize" /\ i <= Len(parsedRows)

\* the text of a non-negative integer in decimal digits
IsNatText(q) == q # <<>> /\ \A j \in 1..Len(q) : q[j] \in DigitSet

\* the cell begins, after white space, with an integer
BeginsWithInteger(cell) ==
    LET s == Trim(cell)
    IN  \/ s # <<>> /\ s[1] \in DigitSet
        \/ Len(s) >= 2 /\ s[1] \in {"-", "+"} /\ s[2] \in DigitSet

\* C17: the quantity of every record the normalizer produces is a
\* non-negative integer, and it is 1 when the quantity cell of the input is
\* blank or begins with no integer.
C17_QuantityNonNegativeInteger ==
    [][normalizing =>
         /\ IsNatText(Get(normalized'[i], <<"q", "u", "a", "n", "t", "i", "t", "y">>))
         /\ ~BeginsWithInteger(Get(parsedRows[i], <<"q", "u", "a", "n", "t", "i", "t", "y">>))
               => Get(normalized'[i], <<"q", "u", "a", "n", "t", "i", "t", "y">>) = <<"1">>]_vars

IsPlausibleYear(y) ==
    /\ Len(y) = 4
    /\ SubSeq(y, 1, 2) \in {<<"1", "9">>, <<"2", "0">>}
    /\ y[3] \in DigitSet
    /\ y[4] \in DigitSet

\* C18: the year of every record the normalizer produces is the empty
\* string or four digits that begin with 19 or 20.
C18_YearEmptyOrFourDigits ==
    [][normalizing =>
         \/ Get(normalized'[i], <<"y", "e", "a", "r">>) = <<>>
         \/ IsPlausibleYear(Get(normalized'[i], <<"y", "e", "a", "r">>))]_vars

\* ------------------------------------------------------------------
\* Money parsing
\* ------------------------------------------------------------------
\* the cells the comparator hands to money(), in the order of moneyCalls
moneyInputs(sort, a, b) ==
    IF sort = "value" THEN <<a.market, b.market>>
    ELSE IF sort = "gain" THEN <<a.market, a.lastSold, b.market, b.lastSold>>
    ELSE <<>>

sorterDone == prog = "query" /\ pc = "done"

\* C19: money() gives null, and never 0, for a cell that is empty, white
\* space only or holds no parsable number; it gives 0 only for a cell that
\* denotes zero.
C19_MissingIsNotZero ==
    sorterDone =>
        \A k \in 1..Len(amounts) :
            LET cell == moneyInputs(query.sort, query.a, query.b)[k]
            IN  /\ ~DenotesNumber(cell) => ~amounts[k].ok
                /\ (amounts[k].ok /\ amounts[k].v = 0)
                      => (DenotesNumber(cell) /\ numberIn(cell) = 0)

\* ------------------------------------------------------------------
\* Key stability
\* ------------------------------------------------------------------
\* the characters that are neither letters, digits nor white space
IsPunctuation(c) ==
    c \notin UpperSet \cup LowerSet \cup DigitSet \cup WhiteSet
             \cup {AccentSeq[j] : j \in 1..Len(AccentSeq)}

\* the cell without its diacritics, its punctuation, its letter case and its
\* surrounding and repeated white space
Folded(s) ==
    CollapseWhite(Trim(ToLowerCase(deburr(SelectSeq(s, LAMBDA c : ~IsPunctuation(c))))))

\* the two records differ in case, white space, punctuation and diacritics
\* of player and set, and in the order of their columns, at most
sameCard(a, b) ==
    /\ Folded(Get(a, <<"player">>)) = Folded(Get(b, <<"player">>))
    /\ Folded(Get(a, <<"set">>)) = Folded(Get(b, <<"set">>))
    /\ \A f \in {KeyFields[j] : j \in 1..Len(KeyFields)} \ {<<"player">>, <<"set">>} :
          Get(a, f) = Get(b, f)

keysComputed ==
    prog = "keys" /\ Len(heap) = 2 /\ keys.identity # <<>> /\ keys.strict # <<>>

\* C20: two records that differ only in letter case, white space,
\* punctuation or diacritics of player and set, in whatever order their
\* columns are, have the same Identity Key and the same Strict Duplicate Key.
C20_KeysStable ==
    (keysComputed /\ sameCard(heap[1], heap[2]))
        => /\ keys.identity[1] = keys.identity[2]
           /\ keys.strict[1] = keys.strict[2]

\* ------------------------------------------------------------------
\* The title fallback of the Identity Key
\* ------------------------------------------------------------------
oldKeyed == prog = "keys" /\ Len(heap) = 1 /\ keys.old # <<>>

\* every column of the aliases `guesses` is blank or absent in the row
allBlank(row, guesses) ==
    \A j \in 1..Len(guesses) : IsBlank(Get(row, guesses[j]))

\* the row has the title of the form f and no set, card number or year
titleOnly(row, f) ==
    /\ Get(row, <<"Title">>) = TitleOf(f)
    /\ allBlank(row, OLD_FIELD_GUESSES.set)
    /\ allBlank(row, OLD_FIELD_GUESSES.card_number)
    /\ allBlank(row, OLD_FIELD_GUESSES.year)

\* the title text after the leading year or season
afterLead(f) == f.set \o <<" ", "#">> \o f.no \o <<" ">> \o f.player

\* C21: for a row with blank set, card number and year whose title is
\* '<year or season> <set words> #<number> <player>', the Identity Key holds
\* the leading 4-digit year, the digits after '#' as card number and the
\* title text after the leading year or season as set.
C21_TitleFallback ==
    oldKeyed =>
        \A f \in TitleForms :
            titleOnly(heap[1], f) =>
                keys.old[1] = norm(Get(heap[1], <<"Player">>)) \o Bar
                                \o norm(afterLead(f)) \o Bar
                                \o norm(f.no) \o Bar \o f.year

\* ------------------------------------------------------------------
\* Structured columns in the Identity Key
\* ------------------------------------------------------------------
\* the non-blank cells of the alias columns `guesses` of the row
structuredValues(row, guesses) ==
    {Trim(Get(row, guesses[j])) : j \in {k \in 1..Len(guesses) : ~IsBlank(Get(row, guesses[k]))}}

\* the n-th part of a key player|set|card|year
keyPart(key, n) == SplitOn(key, {"|"})[n]

\* C25: whenever an alias column of set, card number or year holds a
\* non-blank value, the Identity Key of an old row is built from the value
\* of such a column, never from the title.
C25_StructuredPreferred ==
    oldKeyed =>
        /\ structuredValues(heap[1], OLD_FIELD_GUESSES.set) # {}
              => keyPart(keys.old[1], 2)
                    \in {norm(v) : v \in structuredValues(heap[1], OLD_FIELD_GUESSES.set)}
        /\ structuredValues(heap[1], OLD_FIELD_GUESSES.card_number) # {}
              => keyPart(keys.old[1], 3)
                    \in {norm(v) : v \in structuredValues(heap[1], OLD_FIELD_GUESSES.card_number)}
        /\ structuredValues(heap[1], OLD_FIELD_GUESSES.year) # {}
              => keyPart(keys.old[1], 4)
                    \in {pickYear(v) : v \in structuredValues(heap[1], OLD_FIELD_GUESSES.year)}

\* ------------------------------------------------------------------
\* Weak keys
\* ------------------------------------------------------------------
\* fewer than 2 of player, set, card number and year are non-empty
weakRow(r) ==
    Cardinality({f \in {<<"player">>, <<"set">>, <<"card_number">>, <<"year">>} :
                    ~IsBlank(Get(r, f))}) < 2

\* the fallback key normalizeText(title) | firstImageURL of the two rows agrees
fallbackAgrees(a, b) ==
    /\ norm(Get(a, <<"Title">>)) = norm(Get(b, <<"Title">>))
    /\ Trim(Get(a, <<"image">>)) = Trim(Get(b, <<"image">>))

\* C22: two rows with fewer than 2 non-empty fields among player, set, card
\* number and year whose title or first image differ get different keys:
\* they share no candidate bucket of the hybrid merge and no group of the
\* dedupe.
C22_WeakKeysApart ==
    (keysComputed /\ weakRow(heap[1]) /\ weakRow(heap[2])
        /\ ~fallbackAgrees(heap[1], heap[2]))
        => /\ keys.identity[1] # keys.identity[2]
           /\ keys.strict[1] # keys.strict[2]

\* ------------------------------------------------------------------
\* Quoted fields
\* ------------------------------------------------------------------
\* the records of a delimited text: the pieces between the line feeds that
\* are outside double quotes, the blank ones left out
recordsIn(text) ==
    SelectSeq(piecesBetween(ArrayFrom([j \in 1..Len(text) |-> <<text[j]>>]),
                            {j \in 1..Len(text) : text[j] = "\n" /\ ~inQuotesAt(text, j)}),
              LAMBDA r : ~IsBlank(r))

normalizerRead == prog = "normalize" /\ pc \in {"normalize", "done"}

\* C23: a quoted field that holds the delimiter or a line feed is one cell of
\* one record: the normalizer parses as many rows as the file has records
\* after the header, and the player cell of each row is the quoted field of
\* its record.
C23_QuotedFieldIsOneCell ==
    (normalizerRead /\ recordsIn(raw)[1] = NormHeaderLine) =>
        /\ Len(parsedRows) = Len(recordsIn(raw)) - 1
        /\ \A k \in 1..Len(parsedRows) :
              Get(parsedRows[k], <<"p", "l", "a", "y", "e", "r">>)
                 = normalizeText(splitLine(recordsIn(raw)[k + 1], ",")[3])

\* ------------------------------------------------------------------
\* Delimiter detection
\* ------------------------------------------------------------------
DelimiterCandidates == {",", "\t", ";", "|"}

\* the fields of the header line of the file under the delimiter d
headerFields(d) == splitLine(linesOf(raw)[1], d)

\* the candidates that split the header line into the most fields
bestCandidates ==
    {d \in DelimiterCandidates :
        \A e \in DelimiterCandidates : Len(headerFields(e)) <= Len(headerFields(d))}

\* the canonical names of the fields of the header line under d
canonicalFields(d) ==
    {canonicalizeHeader(normalizeText(headerFields(d)[c])) : c \in 1..Len(headerFields(d))}

\* C24: the delimiter the normalizer detects splits the header line into the
\* most fields: the columns of the rows it parses are the fields the header
\* line has under a best one of the candidates comma, tab, semicolon and pipe.
C24_MostFieldsDelimiter ==
    (normalizerRead /\ parsedRows # <<>>) =>
        \E d \in bestCandidates :
            {parsedRows[1][c][1] : c \in 1..Len(parsedRows[1])} = canonicalFields(d)

\* ------------------------------------------------------------------
\* Columns that canonicalize to the same field
\* ------------------------------------------------------------------
\* the columns of the header line of the file that canonicalize to f
columnsOf(f) ==
    {c \in 1..Len(splitLine(linesOf(raw)[1], ",")) :
        canonicalizeHeader(normalizeText(splitLine(linesOf(raw)[1], ",")[c])) = f}

\* the cell of the k-th data line under the greatest column of P
cellUnderLast(k, P) ==
    cellOrEmpty(splitLine(linesOf(raw)[k + 1], ","),
                CHOOSE c \in P : \A d \in P : d <= c)

\* the cells of the k-th data line under the columns of P but the greatest
cellsUnderEarlier(k, P) ==
    {cellOrEmpty(splitLine(linesOf(raw)[k + 1], ","), c) :
        c \in {d \in P : \E e \in P : d < e}}

Col_year == <<"y", "e", "a", "r">>

Col_value == <<"v", "a", "l", "u", "e">>

\* the file is delimited by commas and has two or more columns for f
duplicated(f) ==
    /\ normalizerRead
    /\ raw \in DupColumnFilePool
    /\ Cardinality(columnsOf(f)) >= 2

\* C30: when two or more columns canonicalize to the same field, the
\* normalized row holds for it the value of the last such column in header
\* order, also when that is blank and an earlier one is not.
C30_LastColumnWins ==
    /\ duplicated(Col_year) =>
          \A k \in 1..Len(normalized) :
              Get(normalized[k], Col_year)
                 = normalizeYear(cellUnderLast(k, columnsOf(Col_year)))
    /\ duplicated(Col_value) =>
          \A k \in 1..Len(normalized) :
              Get(normalized[k], Col_value)
                 = safeNum(cellUnderLast(k, columnsOf(Col_value)))

\* a row is normalized whose last year column is blank while an earlier one
\* holds a year, and the year of the row is empty
C30_BlankLastColumnKept ==
    /\ duplicated(Col_year)
    /\ normalized # <<>>
    /\ cellUnderLast(1, columnsOf(Col_year)) = <<>>
    /\ \E v \in cellsUnderEarlier(1, columnsOf(Col_year)) : v # <<>>
    /\ Get(normalized[1], Col_year) = <<>>

\* ------------------------------------------------------------------
\* Notes of a group of strict duplicates
\* ------------------------------------------------------------------
\* the loop of the dedupe has taken the first rows of the input
folding == prog = "dedupe" /\ pc \in {"loop", "done"} /\ InHeaders(headers, <<"notes">>)

\* the rows of the input the loop has taken that have the key `key`
groupOf(key) ==
    {j \in 1..(i - 1) : j <= Len(objects) /\ buildDedupeKey(heap[objects[j]]) = key}

\* the texts between the separators of the notes `notes`
noteTexts(notes) ==
    [j \in 1..Len(SplitOn(notes, {"|"})) |-> Trim(SplitOn(notes, {"|"})[j])]

\* how often the text t stands in the notes `notes`
occurrences(t, notes) ==
    Cardinality({j \in 1..Len(noteTexts(notes)) : noteTexts(notes)[j] = t})

\* C26: after the rows of a group of strict duplicates are folded in input
\* order, each distinct non-empty note text of the group occurs exactly once
\* in the notes of the merged row.
C26_EachNoteOnce ==
    folding =>
        \A m \in 1..Len(map) :
            \A j \in groupOf(map[m][1]) :
                norm_d(Get(heap[objects[j]], <<"notes">>)) # <<>> =>
                    occurrences(norm_d(Get(heap[objects[j]], <<"notes">>)),
                                Get(heap[map[m][2]], <<"notes">>)) = 1

\* ------------------------------------------------------------------
\* The dedupe run again on a file it wrote (part_001)
\* ------------------------------------------------------------------
escapeCsvField(s, delim) ==
    IF \E j \in 1..Len(s) : s[j] \in {Quote, "\n", "\r", delim}
      THEN <<Quote>>
             \o Join([j \in 1..Len(s) |->
                         IF s[j] = Quote THEN <<Quote, Quote>> ELSE <<s[j]>>], <<>>)
             \o <<Quote>>
      ELSE s

\* the text writeDelimited(outPath, headers, objects, delim) writes
writeDelimited(hs, objs, delim) ==
    Join(<<Join([c \in 1..Len(hs) |-> escapeCsvField(hs[c], delim)], <<delim>>)>>
           \o [r \in 1..Len(objs) |->
                 Join([c \in 1..Len(hs) |-> escapeCsvField(Get(objs[r], hs[c]), delim)],
                      <<delim>>)],
         <<"\n">>) \o <<"\n">>

\* text.slice(0, 5000)
HeadLength == 5000

headOf(text) == IF Len(text) > HeadLength THEN SubSeq(text, 1, HeadLength) ELSE text

detectDelimiter_d(text) ==
    IF CountOf(headOf(text), "\t") > CountOf(headOf(text), ",") THEN "\t" ELSE ","

\* the text without the carriage returns outside quotes, which the loop of
\* parseDelimited passes over
withoutCR(text) ==
    IF \A j \in 1..Len(text) : text[j] # "\r" THEN text
    ELSE Join(ArrayFrom([j \in 1..Len(text) |->
                 IF text[j] = "\r" /\ ~inQuotesAt(text, j) THEN <<>> ELSE <<text[j]>>]),
              <<>>)

\* the pieces of the text between the line feeds outside quotes
piecesOf(text) ==
    piecesBetween(ArrayFrom([j \in 1..Len(text) |-> <<text[j]>>]),
                  {j \in 1..Len(text) : text[j] = "\n" /\ ~inQuotesAt(text, j)})

\* the rows of the pieces: every piece that a line feed ends is a row, the
\* last piece is one when it has two fields or more or is not blank
rowsOf(pieces, delim) ==
    LET last == splitLine(pieces[Len(pieces)], delim)
    IN  ArrayFrom([k \in 1..(IF Len(last) > 1 \/ ~IsBlank(last[1])
                                THEN Len(pieces) ELSE Len(pieces) - 1) |->
                      splitLine(pieces[k], delim)])

parseDelimited_d(text, delim) ==
    CHOOSE rows \in {rowsOf(pieces, delim) :
                        pieces \in {piecesOf(t) : t \in {withoutCR(text)}}} : TRUE

\* obj[h] = r[idx] ?? "" for the columns of the header line in their order:
\* under a name that several columns have the cell of the last one stays
cellUnder(hs, r, c) ==
    IF LastOf({d \in 1..Len(hs) : hs[d] = hs[c]}) <= Len(r)
      THEN r[LastOf({d \in 1..Len(hs) : hs[d] = hs[c]})]
      ELSE <<>>

\* toObjects(rows): the header line normed and an object for every row after it
objectsOf(hs, rows) ==
    [headers |-> hs,
     objects |-> ArrayFrom([r \in 1..(Len(rows) - 1) |->
                    ArrayFrom([c \in 1..Len(hs) |->
                        <<hs[c], cellUnder(hs, rows[r + 1], c)>>])])]

toObjects(rows) ==
    IF rows = <<>> THEN [headers |-> <<>>, objects |-> <<>>]
    ELSE CHOOSE parsed \in
           {objectsOf(hs, rows) :
               hs \in {ArrayFrom([c \in 1..Len(rows[1]) |-> norm_d(rows[1][c])])}} : TRUE

\* one turn of the loop `for (const o of objects)` of main() for the row o
\* with the key `key`; st holds the heap, the map and mergedCount
turnOf(st, o, key, hs, fill, mergeValues) ==
    IF ~MapHas(st.map, key) THEN [st EXCEPT !.map = MapSet(@, key, o)]
    ELSE [st EXCEPT
            !.heap = mergeRows_d(st.heap, MapGet(st.map, key), o, hs, fill,
                                 mergeValues).heap,
            !.map = MapSet(@, key, Len(st.heap) + 1),
            !.mergedCount = @ + 1]

\* the loop from the row k on
RECURSIVE loopFrom(_, _, _, _, _)
loopFrom(st, k, hs, fill, mergeValues) ==
    IF k > Len(st.objects) THEN st
    ELSE CHOOSE end \in
           {loopFrom(next, k + 1, hs, fill, mergeValues) :
               next \in {turnOf(st, st.objects[k], key, hs, fill, mergeValues) :
                            key \in {buildDedupeKey(st.heap[st.objects[k]])}}} : TRUE

\* main() on the objects of a file: the required columns, the default
\* quantity and the loop
dedupeObjects(parsed, fill, mergeValues) ==
    CHOOSE end \in
      {loopFrom(st, 1, withRequired(parsed.headers, required), fill, mergeValues) :
          st \in {[heap |-> ArrayFrom([r \in 1..Len(parsed.objects) |->
                                defaultQuantity(addMissing(parsed.objects[r],
                                                           parsed.headers, required))]),
                    objects |-> ArrayFrom([r \in 1..Len(parsed.objects) |-> r]),
                    map |-> <<>>,
                    mergedCount |-> 0]}} : TRUE

\* the objects main() reads from the text of a file
readObjects(text) ==
    CHOOSE parsed \in
      {toObjects(rows) :
          rows \in {parseDelimited_d(text, delim) :
                      delim \in {detectDelimiter_d(text)}}} : TRUE

\* main() on the text of a file that has a header line and a row
dedupeText(text, fill, mergeValues) ==
    CHOOSE end \in
      {dedupeObjects(parsed, fill, mergeValues) : parsed \in {readObjects(text)}} : TRUE

\* ------------------------------------------------------------------
\* The dedupe on the text of its input file
\* ------------------------------------------------------------------
\* the number of tabs of the notes of the last row of the third file
TabCount == 70

TabNotes == [j \in 1..TabCount |-> "\t"]

\* the rows of the files: two rows of one Strict Duplicate Key, a third of the
\* same key, a row of another key, and that row with tabs for its notes
RereadCellPool ==
    << DedupeCellPool[1], DedupeCellPool[2], DedupeCellPool[4], DedupeCellPool[5],
       [DedupeCellPool[5] EXCEPT ![6] = TabNotes] >>

\* the text of the CSV file with the header line hs and the rows `picked`
fileOf(hs, picked) ==
    writeDelimited(hs, [j \in 1..Len(picked) |-> DedupeRow(hs, RereadCellPool[picked[j]])],
                   ",")

RereadFilePool ==
    {fileOf(FullHeaders, picked) :
        picked \in {<<1>>, <<1, 2>>, <<1, 4>>, <<1, 2, 3>>, <<1, 2, 4>>, <<1, 2, 5>>}}
      \cup {fileOf(ShortHeaders, <<1, 2, 4>>)}

\* main() of the dedupe has read its input file
InitReread ==
    /\ prog = "dedupe"
    /\ pc = "prepare"
    /\ argv \in DedupeArgvPool
    /\ inFiles = {"in"}
    /\ FILL_BLANKS = hasFlag(argv, FlagFillBlanks)
    /\ MERGE_VALUES = mergeValuesOf(argv)
    /\ query = NoQuery
    /\ raw \in RereadFilePool
    /\ headers = readObjects(raw).headers
    /\ heap = readObjects(raw).objects
    /\ objects = [j \in 1..Len(heap) |-> j]
    /\ oldRows = <<>>
    /\ newRows = <<>>
    /\ oldHeaders = <<>>
    /\ newHeaders = <<>>
    /\ InitCommon

NextReread ==
    \/ Prepare_d
    \/ Step_d
    \/ Report_d

RereadSpec == InitReread /\ [][NextReread]_vars

\* the dedupe has written its three files
dedupeWritten == prog = "dedupe" /\ pc = "done" /\ report.written

\* the rows of the output in their order
outRows == ArrayFrom([j \in 1..Len(deduped) |-> heap[deduped[j]]])

\* Array.from(map.values()) of a run
rowsOfRun(st) == [j \in 1..Len(st.map) |-> st.heap[st.map[j][2]]]

\* the rows a and b have the same cells under the columns hs
sameCells(a, b, hs) == \A c \in 1..Len(hs) : Get(a, hs[c]) = Get(b, hs[c])

\* the run `again` on the output `out` merges nothing and has the rows of out
mergesNothing(out, again) ==
    /\ again.mergedCount = 0
    /\ Len(again.map) = Len(out)
    /\ \A j \in 1..Len(out) : sameCells(rowsOfRun(again)[j], out[j], headers)

\* C29: the output of the parallel-aware dedupe has no two rows with the same
\* Strict Duplicate Key, rows_out + merged_rows = rows_in, and the dedupe run
\* again with the same flags on the CSV file it wrote merges nothing and
\* yields the same rows with the same quantities.
C29_DedupeIdempotent ==
    dedupeWritten =>
        /\ \A a, b \in 1..Len(outRows) :
              a # b => buildDedupeKey(outRows[a]) # buildDedupeKey(outRows[b])
        /\ report.rows_out + report.merged_rows = report.rows_in
        /\ \A out \in {outRows} :
              \A text \in {writeDelimited(headers, out, ",")} :
                 \A again \in {dedupeText(text, FILL_BLANKS, MERGE_VALUES)} :
                    mergesNothing(out, again)

\* ------------------------------------------------------------------
\* Adding the cards of an eBay bulk file to the inventory (part_002)
\* ------------------------------------------------------------------
EbayCandidates == <<",", "\t", ";", "|">>

\* detectDelimiter(headerLine): the first candidate that splits the line
\* into the most fields
detectDelimiter_e(headerLine) ==
    EbayCandidates[MinOf({c \in 1..Len(EbayCandidates) :
        \A d \in 1..Len(EbayCandidates) :
            Len(splitLine(headerLine, EbayCandidates[d]))
               <= Len(splitLine(headerLine, EbayCandidates[c]))})]

\* a line without the carriage return that ends it
withoutEndCR(line) ==
    IF line # <<>> /\ line[Len(line)] = "\r" THEN SubSeq(line, 1, Len(line) - 1) ELSE line

\* text.split(/\r?\n/)
splitLines(text) ==
    [k \in 1..Len(SplitOn(text, {"\n"})) |->
        IF k < Len(SplitOn(text, {"\n"}))
          THEN withoutEndCR(SplitOn(text, {"\n"})[k])
          ELSE SplitOn(text, {"\n"})[k]]

\* text.split(/\r?\n/)[0] || ","
firstLineOf(text) == IF splitLines(text)[1] = <<>> THEN <<",">> ELSE splitLines(text)[1]

\* the lines at whose end the number of quotes read so far is even
closingLines(lines) ==
    {k \in 1..Len(lines) :
        CountOf(Join(SubSeq(lines, 1, k), <<>>), Quote) % 2 = 0}

\* the records of parseDelimited: the lines joined by a line feed up to
\* each line that closes the quotes, the rest of the text being the last
\* record, and the blank records left out
recordsOf(lines, C) ==
    SelectSeq(
      ArrayFrom([k \in 1..(Cardinality(C) + (IF Len(lines) \in C THEN 0 ELSE 1)) |->
          Join(SubSeq(lines,
                      IF k = 1 THEN 1 ELSE NthOf(C, k - 1) + 1,
                      IF k <= Cardinality(C) THEN NthOf(C, k) ELSE Len(lines)),
               <<"\n">>)]),
      LAMBDA r : ~IsBlank(r))

\* the columns of the header line that have their name for the first time
firstColumns(hs) == {c \in 1..Len(hs) : \A d \in 1..(c - 1) : hs[d] # hs[c]}

\* obj[headers[i]] = (cells[i] ?? "").trim() for every column i
rowOf(hs, cells) ==
    ArrayFrom([k \in 1..Cardinality(firstColumns(hs)) |->
        <<hs[NthOf(firstColumns(hs), k)],
          IF LastOf({d \in 1..Len(hs) : hs[d] = hs[NthOf(firstColumns(hs), k)]})
               <= Len(cells)
            THEN Trim(cells[LastOf({d \in 1..Len(hs) :
                                       hs[d] = hs[NthOf(firstColumns(hs), k)]})])
            ELSE <<>> >>])

headersAndRows(recs, delimiter) ==
    IF recs = <<>> THEN [headers |-> <<>>, rows |-> <<>>]
    ELSE CHOOSE parsed \in
           {[headers |-> hs,
             rows |-> ArrayFrom([r \in 1..(Len(recs) - 1) |->
                         rowOf(hs, splitLine(recs[r + 1], delimiter))])] :
            hs \in {ArrayFrom([c \in 1..Len(splitLine(recs[1], delimiter)) |->
                                 Trim(splitLine(recs[1], delimiter)[c])])}} : TRUE

parseDelimited_e(text, delimiter) ==
    CHOOSE parsed \in
      {headersAndRows(recs, delimiter) :
          recs \in {recordsOf(lines, closingLines(lines)) :
                      lines \in {ArrayFrom(splitLines(text))}}} : TRUE

\* the columns of the rows in the order in which they come first
RECURSIVE columnsOfRows(_, _)
columnsOfRows(rows, cols) ==
    IF rows = <<>> THEN cols
    ELSE columnsOfRows(Tail(rows),
           cols \o SelectSeq([c \in 1..Len(Head(rows)) |-> Head(rows)[c][1]],
                             LAMBDA k : ~InHeaders(cols, k)))

\* the text writeDelimited(rows, delimiter, outPath) writes
writeDelimited_e(rows, delimiter) ==
    IF rows = <<>> THEN <<>>
    ELSE CHOOSE text \in
           {Join(<<Join([c \in 1..Len(cols) |-> escapeCsvField(cols[c], delimiter)],
                        <<delimiter>>)>>
                   \o [r \in 1..Len(rows) |->
                         Join([c \in 1..Len(cols) |->
                                  escapeCsvField(Get(rows[r], cols[c]), delimiter)],
                              <<delimiter>>)],
                 <<"\n">>) :
            cols \in {columnsOfRows(rows, <<>>)}} : TRUE

\* row["Title"] || row["Item title"] || ... || "": the first cell that is
\* not the empty string
RECURSIVE firstTruthy(_, _)
firstTruthy(row, cols) ==
    IF cols = <<>> THEN <<>>
    ELSE IF Get(row, Head(cols)) # <<>> THEN Get(row, Head(cols))
    ELSE firstTruthy(row, Tail(cols))

\* `${player}|${norm(setRaw)}|${norm(cardRaw)}|${pickYear(yearRaw)}`
stableKey(row, title, setRaw, cardRaw) ==
    norm(firstTruthy(row, << <<"Player">>, <<"player">> >>)) \o Bar
      \o norm(setRaw) \o Bar \o norm(cardRaw) \o Bar
      \o pickYear(firstNonEmpty(<<Get(row, <<"Year">>), Get(row, <<"Season">>),
                                  extract4DigitYear(setRaw), extract4DigitYear(title),
                                  extractSeasonStartYear(Get(row, <<"Season">>))>>))

inventoryTitle(row) == firstTruthy(row, << <<"Title">>, <<"title">> >>)

keyFromInventoryRow(row) ==
    stableKey(row, inventoryTitle(row),
              firstNonEmpty(<<Get(row, <<"Set">>), Get(row, <<"set">>),
                              guessSetFromTitle(inventoryTitle(row))>>),
              firstNonEmpty(<<Get(row, <<"Card Number">>), Get(row, <<"card_number">>),
                              extractCardNoFromTitle(inventoryTitle(row))>>))

ebayTitle(row) ==
    firstTruthy(row, << <<"Title">>, <<"Item title">>, <<"Custom label">>,
                        <<"Custom label (SKU)">>, <<"Product">> >>)

keyFromEbayRow(row) ==
    stableKey(row, ebayTitle(row),
              firstNonEmpty(<<Get(row, <<"Set">>), Get(row, <<"set">>),
                              guessSetFromTitle(ebayTitle(row))>>),
              firstNonEmpty(<<Get(row, <<"Card Number">>), Get(row, <<"Card #">>),
                              Get(row, <<"Card No">>), Get(row, <<"card_number">>),
                              extractCardNoFromTitle(ebayTitle(row))>>))

ebayToInventoryRow(ebayRow) ==
    << <<<<"Title">>, firstTruthy(ebayRow, << <<"Title">>, <<"Item title">>,
                                              <<"Custom label">>, <<"Product">> >>)>>,
       <<<<"Player">>, Get(ebayRow, <<"Player">>)>>,
       <<<<"Set">>, Get(ebayRow, <<"Set">>)>>,
       <<<<"Card Number">>, firstTruthy(ebayRow, << <<"Card Number">>, <<"Card #">>,
                                                    <<"Card No">> >>)>>,
       <<<<"Season">>, firstTruthy(ebayRow, << <<"Season">>, <<"Year">> >>)>>,
       <<<<"Team">>, Get(ebayRow, <<"Team">>)>>,
       <<<<"League">>, Get(ebayRow, <<"League">>)>>,
       <<<<"Features">>, Get(ebayRow, <<"Features">>)>>,
       <<<<"Images">>, firstTruthy(ebayRow, << <<"Images">>, <<"Image">>, <<"Image URL">>,
                                               <<"image_url">> >>)>>,
       <<<<"Custom label (SKU)">>, firstTruthy(ebayRow, << <<"Custom label (SKU)">>,
                                                           <<"Custom label">> >>)>>,
       <<<<"Notes">>, Get(ebayRow, <<"Notes">>)>> >>

\* if (!String(outRow.Player || "").trim()) outRow.Player = r["player"] || ""
withPlayer(outRow, r) ==
    IF IsBlank(Get(outRow, <<"Player">>))
      THEN Put(outRow, <<"Player">>, Get(r, <<"player">>))
      ELSE outRow

\* the rows main() reads from the text of a file
readRows(text) ==
    CHOOSE rows \in
      {parseDelimited_e(text, delimiter).rows :
          delimiter \in {detectDelimiter_e(firstLineOf(text))}} : TRUE

\* the text of a file with the header line hs and the cells of its rows
toText(hs, cells) ==
    Join(<<Join(hs, <<",">>)>> \o [r \in 1..Len(cells) |-> Join(cells[r], <<",">>)],
         <<"\n">>) \o <<"\n">>

InventoryColumns == <<<<"Title">>, <<"Player">>, <<"Set">>, <<"Card Number">>, <<"Season">>>>

\* the inventory file with one card, and with the header line alone
InventoryOneCard ==
    toText(InventoryColumns,
           <<<<<<"2", "0", "2", "3", " ", "T", "o", "p", "p", "s", " ", "#", "7", " ", "M", "e", "s", "s", "i">>, <<"M", "e", "s", "s", "i">>, <<"T", "o", "p", "p", "s">>, <<"7">>, <<"2", "0", "2", "3">>>>>>)

InventoryNoCard == toText(InventoryColumns, <<>>)

InventoryFilePool == {InventoryOneCard, InventoryNoCard}

EbayFull ==
    toText(<<<<"Title">>, <<"Player">>, <<"Set">>, <<"Card Number">>, <<"Season">>>>,
           <<<<<<"2", "0", "2", "3", " ", "T", "o", "p", "p", "s", " ", "#", "7", " ", "M", "e", "s", "s", "i">>, <<"M", "e", "s", "s", "i">>, <<"T", "o", "p", "p", "s">>, <<"7">>, <<"2", "0", "2", "3">>>>,
             <<<<"2", "0", "2", "2", " ", "P", "a", "n", "i", "n", "i", " ", "#", "1", "0", " ", "P", "e", "l", "e">>, <<"P", "e", "l", "e">>, <<"P", "a", "n", "i", "n", "i">>, <<"1", "0">>, <<"2", "0", "2", "2">>>>>>)

EbaySkuOnly ==
    toText(<<<<"Custom label (SKU)">>, <<"Player">>>>,
           <<<<<<"2", "0", "2", "1", " ", "T", "o", "p", "p", "s", " ", "F", "I", "F", "A", " ", "9", " ", "K", "a", "n", "e">>, <<"K", "a", "n", "e">>>>>>)

EbayLowerCase ==
    toText(<<<<"Title">>, <<"player">>, <<"set">>, <<"card_number">>, <<"Year">>>>,
           <<<<<<"H", "a", "a", "l", "a", "n", "d", " ", "R", "C">>, <<"H", "a", "a", "l", "a", "n", "d">>, <<"P", "r", "i", "z", "m">>, <<"2", "2", "1">>, <<"2", "0", "2", "3">>>>>>)

EbayCardHash ==
    toText(<<<<"Item title">>, <<"Player">>, <<"Set">>, <<"Card #">>, <<"Year">>>>,
           <<<<<<"2", "0", "2", "0", " ", "S", "e", "l", "e", "c", "t", " ", "#", "5", " ", "S", "a", "l", "a", "h">>, <<"S", "a", "l", "a", "h">>, <<"S", "e", "l", "e", "c", "t">>, <<"5">>, <<"2", "0", "2", "0">>>>>>)

EbayTwice ==
    toText(<<<<"Title">>, <<"Player">>, <<"Set">>, <<"Card Number">>, <<"Season">>>>,
           <<<<<<"2", "0", "2", "2", " ", "P", "a", "n", "i", "n", "i", " ", "#", "1", "0", " ", "P", "e", "l", "e">>, <<"P", "e", "l", "e">>, <<"P", "a", "n", "i", "n", "i">>, <<"1", "0">>, <<"2", "0", "2", "2">>>>,
             <<<<"2", "0", "2", "2", " ", "P", "a", "n", "i", "n", "i", " ", "#", "1", "0", " ", "P", "e", "l", "e">>, <<"P", "e", "l", "e">>, <<"P", "a", "n", "i", "n", "i">>, <<"1", "0">>, <<"2", "0", "2", "2">>>>>>)

EbayYearAndSeason ==
    toText(<<<<"Title">>, <<"Player">>, <<"Set">>, <<"Card Number">>, <<"Year">>, <<"Season">>>>,
           <<<<<<"Z", "i", "d", "a", "n", "e">>, <<"Z", "i", "d", "a", "n", "e">>, <<"U", "p", "p", "e", "r", " ", "D", "e", "c", "k">>, <<"A", "1">>, <<"1", "9", "9", "8">>, <<"1", "9", "9", "9", "-", "0", "0">>>>>>)

EbayFilePool ==
    {EbayFull, EbaySkuOnly, EbayLowerCase, EbayCardHash, EbayTwice, EbayYearAndSeason}

\* the run of main() that has read nothing yet
FirstRun(inventory, bulk) ==
    [inventory |-> inventory, bulk |-> bulk, run |-> 1, invRows |-> <<>>,
     ebayRows |-> <<>>, invKeys |-> {}, ebaySeen |-> {}, added |-> <<>>, skipped |-> 0,
     duplicatesInsideEbay |-> 0, written |-> <<>>, addedBefore |-> <<>>]

ebayRest ==
    <<prog, normVars, queryVars, keys, runs, FILL_BLANKS, MERGE_VALUES, heap, hybridVars,
      index, jsVars, p0Vars, dedupeVars, report, mergedWith>>

\* nothing of the other scripts has run
IdleState ==
    /\ argv = <<>>
    /\ FILL_BLANKS = FALSE
    /\ MERGE_VALUES = StrKeepOld
    /\ query = NoQuery
    /\ raw = <<>>
    /\ heap = <<>>
    /\ oldRows = <<>>
    /\ newRows = <<>>
    /\ oldHeaders = <<>>
    /\ newHeaders = <<>>
    /\ headers = <<>>
    /\ objects = <<>>
    /\ i = 1
    /\ index = <<>>
    /\ matched = <<>>
    /\ unmatchedOld = <<>>
    /\ ambiguous = <<>>
    /\ usedNewKeys = {}
    /\ merged = <<>>
    /\ counts = [matched |-> 0, unmatched |-> 0, ambiguous |-> 0]
    /\ usedNewIds = {}
    /\ examples = [unmatched_old_rows |-> <<>>, ambiguous_old_rows |-> <<>>]
    /\ map = <<>>
    /\ dupes = <<>>
    /\ mergedCount = 0
    /\ deduped = <<>>
    /\ report = NoReport
    /\ mergedWith = <<>>
    /\ outFiles = [f \in OutNames |-> "before"]
    /\ exit = Running
    /\ stderr = <<>>
    /\ parsedRows = <<>>
    /\ normalized = <<>>
    /\ canonical = <<>>
    /\ amounts = <<>>
    /\ compared = "none"
    /\ keys = NoKeys

InitEbay ==
    /\ prog = "ebay"
    /\ pc = "start"
    /\ inFiles \in SUBSET {"inventory", "ebay"}
    /\ IdleState
    /\ runs = NoRuns
    /\ \E inventory \in InventoryFilePool, bulk \in EbayFilePool :
          ebay = FirstRun(inventory, bulk)

\* the start of main(): the two files are there, are read, and the keys of
\* the inventory rows are put into invKeys
Start_e ==
    /\ prog = "ebay"
    /\ pc = "start"
    /\ IF "inventory" \notin inFiles
         THEN Abort("Inventory not found: ", "public/inventory.csv") /\ UNCHANGED ebay
         ELSE IF "ebay" \notin inFiles
           THEN Abort("eBay bulk file not found: ", "data/ebay-bulk.csv")
                  /\ UNCHANGED ebay
         ELSE /\ \E invRows \in {readRows(ebay.inventory)} :
                    ebay' = [ebay EXCEPT
                               !.invRows = invRows,
                               !.ebayRows = readRows(ebay.bulk),
                               !.invKeys = {keyFromInventoryRow(invRows[r]) :
                                               r \in 1..Len(invRows)}]
              /\ pc' = "loop"
              /\ UNCHANGED procVars
    /\ UNCHANGED <<i, ebayRest>>

\* the body of the loop `for (const r of ebayRows)` for the row r with the key k
Keyed_e(r, k) ==
    IF k \in ebay.ebaySeen
      THEN ebay' = [ebay EXCEPT !.duplicatesInsideEbay = @ + 1]
    ELSE IF k \in ebay.invKeys
      THEN ebay' = [ebay EXCEPT !.ebaySeen = @ \cup {k}, !.skipped = @ + 1]
    ELSE ebay' = [ebay EXCEPT
                    !.ebaySeen = @ \cup {k},
                    !.added = Append(@, [key |-> k,
                                         row |-> withPlayer(ebayToInventoryRow(r), r)]),
                    !.invKeys = @ \cup {k}]

\* one turn of the loop
Step_e ==
    /\ prog = "ebay"
    /\ pc = "loop"
    /\ i <= Len(ebay.ebayRows)
    /\ Keyed_e(ebay.ebayRows[i], keyFromEbayRow(ebay.ebayRows[i]))
    /\ i' = i + 1
    /\ UNCHANGED <<pc, procVars, ebayRest>>

\* merged = [...invRows, ...added.map((x) => x.row)] is written
Write_e ==
    /\ prog = "ebay"
    /\ pc = "loop"
    /\ i > Len(ebay.ebayRows)
    /\ ebay' = [ebay EXCEPT
                  !.written = writeDelimited_e(
                                 ebay.invRows
                                   \o [j \in 1..Len(ebay.added) |-> ebay.added[j].row],
                                 ",")]
    /\ pc' = "done"
    /\ exit' = Exited(0)
    /\ UNCHANGED <<i, argv, inFiles, outFiles, stderr, ebayRest>>

\* the script is run again with the inventory it wrote and the same eBay file
Again_e ==
    /\ prog = "ebay"
    /\ pc = "done"
    /\ ebay.run = 1
    /\ ebay' = [FirstRun(ebay.written, ebay.bulk) EXCEPT
                  !.run = 2, !.addedBefore = ebay.added]
    /\ pc' = "start"
    /\ i' = 1
    /\ exit' = Running
    /\ UNCHANGED <<argv, inFiles, outFiles, stderr, ebayRest>>

NextEbay ==
    \/ Start_e
    \/ Step_e
    \/ Write_e
    \/ Again_e

EbaySpec == InitEbay /\ [][NextEbay]_vars

\* the second run of the eBay add has ended
addedAgain == prog = "ebay" /\ pc = "done" /\ ebay.run = 2

\* C27: the eBay add run again on the inventory it wrote, with the same eBay
\* file, adds no row: the key of every inventory row it added is the key of
\* the eBay row the row came from.
C27_EbayAddIdempotent ==
    addedAgain =>
        /\ ebay.added = <<>>
        /\ \A j \in 1..Len(ebay.addedBefore) :
              keyFromInventoryRow(ebay.addedBefore[j].row) = ebay.addedBefore[j].key

\* ------------------------------------------------------------------
\* Two invocations that write to the same output paths
\* ------------------------------------------------------------------
Invocations == {1, 2}

\* what a file holds once the invocation p alone has written it
OutputOf(p) == IF p = 1 THEN "first" ELSE "second"

\* both invocations have come to the writes at the end of main(): `at` is
\* the place in OutOrder of the file an invocation writes next, `open` holds
\* while its fs.writeFileSync has opened that file and not yet written it
BothAtWrites ==
    [at |-> [p \in Invocations |-> 1],
     open |-> [p \in Invocations |-> FALSE],
     disk |-> [f \in OutNames |-> "before"],
     last |-> 0]

InitRace ==
    /\ prog \in {"merge_hybrid", "dedupe"}
    /\ pc = "write"
    /\ inFiles = {}
    /\ IdleState
    /\ ebay = NoEbay
    /\ runs = BothAtWrites

raceRest ==
    <<prog, pc, procVars, normVars, queryVars, keys, ebay, FILL_BLANKS, MERGE_VALUES,
      heap, i, hybridVars, index, jsVars, p0Vars, dedupeVars, report, mergedWith>>

\* fs.writeFileSync opens the file for writing, which cuts it to no bytes
Open_w(p) ==
    /\ pc = "write"
    /\ runs # NoRuns
    /\ runs.at[p] <= Len(OutOrder)
    /\ ~runs.open[p]
    /\ runs' = [runs EXCEPT !.open[p] = TRUE,
                            !.disk[OutOrder[runs.at[p]]] = "empty"]
    /\ UNCHANGED raceRest

\* what the file f can hold after the invocation p has written its bytes
\* from the start of the file: its output, or its output followed by the
\* end of a longer output that the other invocation wrote in between
afterWriteOf(p, f) ==
    IF runs.disk[f] \in {"empty", OutputOf(p)} THEN {OutputOf(p)}
    ELSE {OutputOf(p), "mixed"}

\* fs.writeFileSync writes the bytes and returns
Flush_w(p) ==
    /\ pc = "write"
    /\ runs # NoRuns
    /\ runs.at[p] <= Len(OutOrder)
    /\ runs.open[p]
    /\ \E c \in afterWriteOf(p, OutOrder[runs.at[p]]) :
          runs' = [runs EXCEPT !.open[p] = FALSE,
                               !.at[p] = @ + 1,
                               !.disk[OutOrder[runs.at[p]]] = c,
                               !.last = p]
    /\ UNCHANGED raceRest

NextRace ==
    \/ \E p \in Invocations : Open_w(p)
    \/ \E p \in Invocations : Flush_w(p)

RaceSpec == InitRace /\ [][NextRace]_vars

\* both invocations have written their three files
bothComplete ==
    /\ pc = "write"
    /\ runs # NoRuns
    /\ \A p \in Invocations : runs.at[p] > Len(OutOrder)

\* C28: when two invocations on the same output paths have both completed,
\* the CSV, the TSV and the report all hold the output of the invocation that
\* wrote last.
C28_LastWriterWins ==
    bothComplete => \A f \in OutNames : runs.disk[f] = OutputOf(runs.last)

====
